---- MODULE Spec2Model ----
(***************************************************************************)
(* Model of the VoiceAI turn pipeline (vivmuk/VoiceAI).                    *)
(*                                                                         *)
(*   - AudioQueueManager (src/unnamed/part_003:442-503): the ordered,      *)
(*     gapless playback scheduler.                                         *)
(*   - Drishti (src/unnamed/part_003:716-930): the push-to-talk session    *)
(*     controller with its StateMachine (part_003:109-118).                *)
(*                                                                         *)
(* Time is counted in units of 10 ms of the AudioContext clock, so the     *)
(* 0.02 s scheduling lead of tryPlayNext is 2 units.                       *)
(***************************************************************************)
EXTENDS Integers, Sequences, FiniteSets, TLC

\* ------------------------------------------------------------------------
\* Bounds of the model
\* ------------------------------------------------------------------------
\* number of sentence units of one turn (indices 0 .. MaxSentences-1)
MaxSentences == 2
\* longest decoded buffer, in clock units
MaxDur == 1
\* the clock stops advancing on its own after this value unless audio is
\* still scheduled
MaxTime == 2
\* number of turns that are processed; one more listening phase may begin
MaxTurns == 1
\* number of chatStream calls made on the API object in SpecHistory
MaxChats == 11
\* number of content deltas one chat response is cut into
MaxDeltas == 3
\* last value of the wall clock at which the VAD samples, in units of 50 ms
MaxNow == 24
\* longest time between two animation frames, in units of 50 ms
MaxGap == 3

\* pending animation frame callbacks of VAD.monitor
MaxFrames == 2

\* ------------------------------------------------------------------------
\* Program constants
\* ------------------------------------------------------------------------
\* audioContext.currentTime + 0.02 (part_003:472), in units of 10 ms
Lead == 2

\* CONFIG.MAX_HISTORY (part_003:16)
MAX_HISTORY == 20

\* sentence.length >= 10 (server.js:204)
SentenceThreshold == 10

\* CONFIG.SPEECH_THRESHOLD (part_003:9), in thousandths
SPEECH_THRESHOLD == 18

\* CONFIG.SILENCE_THRESHOLD (part_003:10), in thousandths
SILENCE_THRESHOLD == 9

\* CONFIG.SILENCE_DURATION (part_003:11), 900 ms in units of 50 ms
SILENCE_DURATION == 18

\* CONFIG.MIN_RECORDING_DURATION (part_003:12), 350 ms in units of 50 ms
MIN_RECORDING_DURATION == 7

Max(a, b) == IF a >= b THEN a ELSE b

Indices == 0 .. (MaxSentences - 1)
Durations == 1 .. MaxDur

\* ------------------------------------------------------------------------
\* AudioQueueManager
\*
\* An AudioQueueManager object is a record.  The fields queue,
\* nextPlayIndex, isPlaying, scheduledEndTime, completionResolve,
\* allEnqueued and totalExpected are the fields of the class.  A buffer is
\* represented by its duration.  completionResolve is TRUE when the field
\* holds a resolver and FALSE when it is null.
\*
\* The remaining fields record what the object did to the outside world:
\*   sources      the AudioBufferSourceNodes it created, in creation order:
\*                idx, at (the clock when it was started), start (argument
\*                of source.start), end (start + duration), ended (its onended handler has run), epoch
\*                (number of clear() calls before it was created), waiting
\*                (the indices left in the queue when it was started)
\*   resolveCalls how often a completion resolver was invoked
\*   resolvedBy   which method invoked it first
\*   waitCalled   waitForCompletion has been called
\*   markCalled   markAllEnqueued has been called
\*   arrived      the indices that were passed to enqueue
\*   clears       number of clear() calls
\* ------------------------------------------------------------------------
EmptyMap == [i \in {} |-> 0]

\* constructor (part_003:443-452)
NewAudioQueueManager ==
    [ queue             |-> EmptyMap,
      nextPlayIndex     |-> 0,
      isPlaying         |-> FALSE,
      scheduledEndTime  |-> 0,
      completionResolve |-> FALSE,
      allEnqueued       |-> FALSE,
      totalExpected     |-> -1,
      sources           |-> << >>,
      resolveCalls      |-> 0,
      resolvedBy        |-> "none",
      waitCalled        |-> FALSE,
      markCalled        |-> FALSE,
      arrived           |-> {},
      clears            |-> 0 ]

\* the fields of the class proper
Fields(q) ==
    [ queue             |-> q.queue,
      nextPlayIndex     |-> q.nextPlayIndex,
      isPlaying         |-> q.isPlaying,
      scheduledEndTime  |-> q.scheduledEndTime,
      completionResolve |-> q.completionResolve,
      allEnqueued       |-> q.allEnqueued,
      totalExpected     |-> q.totalExpected ]

MapSet(m, k, v) == [x \in (DOMAIN m) \cup {k} |-> IF x = k THEN v ELSE m[x]]
MapDelete(m, k) == [x \in (DOMAIN m) \ {k} |-> m[x]]

\* this.completionResolve(); this.completionResolve = null;
InvokeResolver(q, who) ==
    [q EXCEPT !.resolveCalls = @ + 1,
              !.resolvedBy = IF @ = "none" THEN who ELSE @,
              !.completionResolve = FALSE]

\* mutant: the resolver is invoked but not forgotten
checkCompletion_KeepsResolver(q) ==
    IF q.allEnqueued /\ q.nextPlayIndex >= q.totalExpected /\ ~q.isPlaying
    THEN IF q.completionResolve
         THEN [InvokeResolver(q, "completion") EXCEPT !.completionResolve = TRUE]
         ELSE q
    ELSE q

\* mutant: completion does not look at nextPlayIndex
checkCompletion_IgnoresIndex(q) ==
    IF q.allEnqueued /\ ~q.isPlaying
    THEN IF q.completionResolve THEN InvokeResolver(q, "completion") ELSE q
    ELSE q

\* checkCompletion (part_003:484-488)
checkCompletion(q) ==
    IF q.allEnqueued /\ q.nextPlayIndex >= q.totalExpected /\ ~q.isPlaying
    THEN IF q.completionResolve THEN InvokeResolver(q, "completion") ELSE q
    ELSE q

\* the body of tryPlayNext when the started buffer stays in the queue
StartBuffer_KeepsQueued(q, now, startTime) ==
    LET i      == q.nextPlayIndex
        buffer == q.queue[i]
    IN  [q EXCEPT !.sources = Append(@, [idx     |-> i,
                                         at      |-> now,
                                         start   |-> startTime,
                                         end     |-> startTime + buffer,
                                         ended   |-> FALSE,
                                         epoch   |-> q.clears,
                                         waiting |-> DOMAIN q.queue \ {i}]),
                  !.scheduledEndTime = startTime + buffer,
                  !.nextPlayIndex = i + 1,
                  !.isPlaying = TRUE]

\* the body of tryPlayNext between the guard and the recursive call
\* (part_003:467-476): start the buffer of nextPlayIndex
StartBuffer(q, now, startTime) ==
    LET i      == q.nextPlayIndex
        buffer == q.queue[i]
        rest   == MapDelete(q.queue, i)
    IN  [q EXCEPT !.queue = rest,
                  !.sources = Append(@, [idx     |-> i,
                                         at      |-> now,
                                         start   |-> startTime,
                                         end     |-> startTime + buffer,
                                         ended   |-> FALSE,
                                         epoch   |-> q.clears,
                                         waiting |-> DOMAIN rest]),
                  !.scheduledEndTime = startTime + buffer,
                  !.nextPlayIndex = i + 1,
                  !.isPlaying = TRUE]

\* mutant: the start time ignores the end of the previous buffer
StartTime_NoMax(q, now) == now + Lead

\* const startTime = Math.max(currentTime + 0.02, scheduledEndTime)
\* (part_003:472)
StartTime(q, now) == Max(now + Lead, q.scheduledEndTime)

RECURSIVE tryPlayNext_AnyIndex(_, _)
\* mutant: plays whatever is queued, lowest index first, instead of
\* waiting for nextPlayIndex
tryPlayNext_AnyIndex(q, now) ==
    IF DOMAIN q.queue = {} THEN q
    ELSE LET i == CHOOSE x \in DOMAIN q.queue : \A y \in DOMAIN q.queue : x <= y
             q0 == [q EXCEPT !.nextPlayIndex = i]
         IN  tryPlayNext_AnyIndex(StartBuffer(q0, now, StartTime(q0, now)), now)

RECURSIVE tryPlayNext(_, _)
\* tryPlayNext (part_003:465-482); the onended handler it installs is
\* onended below
tryPlayNext(q, now) ==
    IF q.nextPlayIndex \notin DOMAIN q.queue THEN q
    ELSE tryPlayNext(StartBuffer(q, now, StartTime(q, now)), now)

\* enqueue (part_003:454-457)
enqueue(q, index, audioBuffer, now) ==
    tryPlayNext([q EXCEPT !.queue = MapSet(@, index, audioBuffer),
                          !.arrived = @ \cup {index}], now)

\* markAllEnqueued (part_003:459-463)
markAllEnqueued(q, total) ==
    checkCompletion([q EXCEPT !.allEnqueued = TRUE,
                              !.totalExpected = total,
                              !.markCalled = TRUE])

\* source.onended of the k-th source created (part_003:477-480)
onended(q, k, now) ==
    LET q1 == [q EXCEPT !.sources[k].ended = TRUE]
        q2 == IF q1.nextPlayIndex \notin DOMAIN q1.queue
              THEN checkCompletion([q1 EXCEPT !.isPlaying = FALSE])
              ELSE q1
    IN  tryPlayNext(q2, now)

\* waitForCompletion (part_003:490-492)
waitForCompletion(q) ==
    checkCompletion([q EXCEPT !.completionResolve = TRUE,
                              !.waitCalled = TRUE])

\* mutant: clear resets the fields but leaves a pending future unresolved
clear_LeavesFuture(q) ==
    [q EXCEPT !.queue = EmptyMap,
              !.nextPlayIndex = 0,
              !.isPlaying = FALSE,
              !.scheduledEndTime = 0,
              !.allEnqueued = FALSE,
              !.totalExpected = -1,
              !.clears = @ + 1]

\* mutant: clear forgets to reset the schedule clock and the expected total
clear_KeepsSchedule(q) ==
    LET q1 == [q EXCEPT !.queue = EmptyMap,
                        !.nextPlayIndex = 0,
                        !.isPlaying = FALSE,
                        !.allEnqueued = FALSE,
                        !.clears = @ + 1]
    IN  IF q1.completionResolve THEN InvokeResolver(q1, "clear") ELSE q1

\* clear (part_003:494-502)
clear(q) ==
    LET q1 == [q EXCEPT !.queue = EmptyMap,
                        !.nextPlayIndex = 0,
                        !.isPlaying = FALSE,
                        !.scheduledEndTime = 0,
                        !.allEnqueued = FALSE,
                        !.totalExpected = -1,
                        !.clears = @ + 1]
    IN  IF q1.completionResolve THEN InvokeResolver(q1, "clear") ELSE q1

\* a source that was started and whose end event has not occurred
Audible(q) == {k \in 1 .. Len(q.sources) : ~q.sources[k].ended}

\* the earliest source that has not ended
FirstAudible(q) == {k \in Audible(q) : \A j \in Audible(q) : j >= k}

\* the source whose end event is next: sources end in the order in which
\* they were scheduled, once the clock has reached their end
NextToEnd(q, now) ==
    {k \in Audible(q) : /\ q.sources[k].end <= now
                        /\ \A j \in Audible(q) : j >= k}

\* ------------------------------------------------------------------------
\* StateMachine (part_003:101-118)
\* ------------------------------------------------------------------------
IDLE == "idle"
LISTENING == "listening"
PROCESSING == "processing"
STREAMING == "streaming"
SPEAKING == "speaking"

\* ------------------------------------------------------------------------
\* API (part_003:315-436)
\*
\* The API object is a record of its fields conversationHistory and
\* activeChatController; an AbortController is represented by the number
\* of the call that created it, null by 0.  The content of a history entry
\* is represented by a number: the text of the n-th utterance, and the
\* response to it.
\* ------------------------------------------------------------------------
NewAPI == [conversationHistory |-> << >>, activeChatController |-> 0]

\* Array.prototype.slice(-n)
SliceLast(h, n) == IF Len(h) <= n THEN h ELSE SubSeq(h, Len(h) - n + 1, Len(h))

\* cancelActiveChat (part_003:319-324)
cancelActiveChat(api) == [api EXCEPT !.activeChatController = 0]

\* chatStream up to its request (part_003:343-351): the user entry is
\* pushed and the history trimmed
chatStream(api, userText, controller) ==
    LET h1 == Append(api.conversationHistory,
                     [role |-> "user", content |-> userText])
        h2 == IF Len(h1) > MAX_HISTORY THEN SliceLast(h1, MAX_HISTORY) ELSE h1
    IN  [cancelActiveChat([api EXCEPT !.conversationHistory = h2])
           EXCEPT !.activeChatController = controller]

\* finally of chatStream (part_003:422-424)
chatStreamFinally(api, controller) ==
    IF api.activeChatController = controller
    THEN [api EXCEPT !.activeChatController = 0]
    ELSE api

\* chatStream returns (part_003:417-418, 422-424)
chatStreamReturn(api, fullResponse, controller) ==
    chatStreamFinally(
        [api EXCEPT !.conversationHistory =
                       Append(@, [role |-> "assistant", content |-> fullResponse])],
        controller)

\* chatStream throws (part_003:369, 390, 419-424)
chatStreamThrow(api, controller) == chatStreamFinally(api, controller)

\* ------------------------------------------------------------------------
\* The /api/chat route of the server (server.js:85-244).  A text is a
\* sequence of one-character strings; positions count from 1.
\* ------------------------------------------------------------------------
\* \s of the regular expressions of the route
Whitespace == {" ", "\n", "\t"}

\* the grave accent U+0060 (server.js:161); the character cannot be
\* written in a string of this module, so this value stands for it
Backtick == "U+0060"

\* [.!?] (server.js:197)
Terminal == {".", "!", "?"}

\* '<think>' (server.js:141, 143, 145)
StartMarker == <<"<", "t", "h", "i", "n", "k", ">">>

\* '</think>' (server.js:141, 147, 149)
EndMarker == <<"<", "/", "t", "h", "i", "n", "k", ">">>

Least(S) == CHOOSE x \in S : \A y \in S : x <= y

Greatest(S) == CHOOSE x \in S : \A y \in S : y <= x

\* s.slice(from - 1)
From(s, from) == SubSeq(s, from, Len(s))

\* pat is found in s at position i
OccursAt(s, pat, i) ==
    /\ i >= 1
    /\ i + Len(pat) - 1 <= Len(s)
    /\ \A k \in 1 .. Len(pat) : s[i + k - 1] = pat[k]

Occurrences(s, pat) == {i \in 1 .. Len(s) : OccursAt(s, pat, i)}

\* s.indexOf(pat, from - 1) + 1: the first position from from on at
\* which pat is found, 0 when there is none
indexOf(s, pat, from) ==
    LET O == {i \in Occurrences(s, pat) : i >= from}
    IN  IF O = {} THEN 0 ELSE Least(O)

\* s.lastIndexOf(pat) + 1
lastIndexOf(s, pat) ==
    IF Occurrences(s, pat) = {} THEN 0 ELSE Greatest(Occurrences(s, pat))

\* s.includes(pat)
includes(s, pat) == Occurrences(s, pat) # {}

\* s.trim()
trim(s) ==
    LET inked == {k \in 1 .. Len(s) : s[k] \notin Whitespace}
    IN  IF inked = {} THEN << >> ELSE SubSeq(s, Least(inked), Greatest(inked))

\* s with every character of chars removed
without(s, chars) == SelectSeq(s, LAMBDA c : c \notin chars)

\* text.replace(/<think>[\s\S]*?<\/think>/g, '') (server.js:141): every
\* start marker that has an end marker after it is removed together with
\* the text up to the first such end marker
RECURSIVE removeBlocks(_)
removeBlocks(text) ==
    LET a == indexOf(text, StartMarker, 1)
        b == IF a = 0 THEN 0
             ELSE indexOf(text, EndMarker, a + Len(StartMarker))
    IN  IF b = 0 THEN text
        ELSE SubSeq(text, 1, a - 1)
                 \o removeBlocks(From(text, b + Len(EndMarker)))

\* stripThinking(text) with the flag insideThinking it reads and writes
\* (server.js:139-153); the result is the returned text and the new flag
stripThinking(text, insideThinking) ==
    LET t1     == removeBlocks(text)
        opens  == includes(t1, StartMarker)
        in2    == insideThinking \/ opens
        t2     == IF opens
                  THEN SubSeq(t1, 1, indexOf(t1, StartMarker, 1) - 1)
                  ELSE t1
        closes == in2 /\ includes(t2, EndMarker)
        in3    == in2 /\ ~closes
        t3     == IF closes
                  THEN From(t2, lastIndexOf(t2, EndMarker) + Len(EndMarker))
                  ELSE t2
    IN  [text           |-> IF in3 THEN << >> ELSE t3,
         insideThinking |-> in3]

\* .replace(/#{1,6}\s/g, '') (server.js:160): up to six "#" directly before
\* a whitespace character are removed together with it
RECURSIVE removeHeadings(_)
removeHeadings(s) ==
    IF s = << >> THEN s
    ELSE IF Head(s) # "#" THEN <<Head(s)>> \o removeHeadings(Tail(s))
    ELSE LET other    == {k \in 1 .. Len(s) : s[k] # "#"}
             n        == IF other = {} THEN Len(s) ELSE Least(other) - 1
             followed == n < Len(s) /\ s[n + 1] \in Whitespace
             keep     == IF followed THEN (IF n > 6 THEN n - 6 ELSE 0) ELSE n
             drop     == IF followed THEN n + 1 ELSE n
         IN  SubSeq(s, 1, keep) \o removeHeadings(From(s, drop + 1))

\* .replace(/\[([^\]]+)\]\([^)]+\)/g, '$1') (server.js:162): "[t](u)" with
\* non-empty t and u becomes t
RECURSIVE replaceLinks(_)
replaceLinks(s) ==
    IF s = << >> THEN s
    ELSE LET j    == indexOf(s, <<"]">>, 2)
             k    == IF j = 0 THEN 0 ELSE indexOf(s, <<")">>, j + 2)
             link == /\ Head(s) = "["
                     /\ j >= 3
                     /\ OccursAt(s, <<"(">>, j + 1)
                     /\ k >= j + 3
         IN  IF link THEN SubSeq(s, 2, j - 1) \o replaceLinks(From(s, k + 1))
             ELSE <<Head(s)>> \o replaceLinks(Tail(s))

\* cleanText(text) (server.js:155-163)
cleanText(text) ==
    trim(replaceLinks(without(removeHeadings(without(text, {"*"})), {Backtick})))

\* the loop over the matches when every boundary is cut, whatever the
\* length of the text it encloses
RECURSIVE scanSentences_NoThreshold(_, _, _, _)
scanSentences_NoThreshold(buf, from, lastIndex, sentences) ==
    LET M == {i \in from .. (Len(buf) - 1) :
                 buf[i] \in Terminal /\ buf[i + 1] \in Whitespace}
    IN  IF M = {} THEN [sentences |-> sentences, lastIndex |-> lastIndex]
        ELSE LET i     == Least(M)
                 inked == {k \in (i + 1) .. Len(buf) :
                              buf[k] \notin Whitespace}
                 next  == IF inked = {} THEN Len(buf) + 1 ELSE Least(inked)
             IN  scanSentences_NoThreshold(
                     buf, next, next,
                     Append(sentences, trim(SubSeq(buf, lastIndex, i))))

\* the loop over the matches of /([.!?])\s+/g in sentenceBuffer
\* (server.js:197-208), from position from on: the sentences pushed and
\* the final lastIndex (as a position, so lastIndex + 1)
RECURSIVE scanSentences(_, _, _, _)
scanSentences(buf, from, lastIndex, sentences) ==
    LET M == {i \in from .. (Len(buf) - 1) :
                 buf[i] \in Terminal /\ buf[i + 1] \in Whitespace}
    IN  IF M = {} THEN [sentences |-> sentences, lastIndex |-> lastIndex]
        ELSE LET i        == Least(M)
                 inked    == {k \in (i + 1) .. Len(buf) :
                                 buf[k] \notin Whitespace}
                 next     == IF inked = {} THEN Len(buf) + 1 ELSE Least(inked)
                 sentence == trim(SubSeq(buf, lastIndex, i))
             IN  IF Len(sentence) >= SentenceThreshold
                 THEN scanSentences(buf, next, next,
                                    Append(sentences, sentence))
                 ELSE scanSentences(buf, next, lastIndex, sentences)

\* The state of one invocation of the route:
\*   text, pos      the content the upstream model produces and how much of
\*                  it has been read
\*   deltas, cuts   the number of content deltas read and the positions of
\*                  text at which one delta ended and the next began
\*   skipped        a frame without content was read (server.js:174-176,
\*                  181, 220-222)
\*   sentenceBuffer, sentenceIndex, insideThinking, aborted
\*                  the variables of the route (server.js:86, 134-136)
\*   res            the events written to the response
\*   ended          res.end() was called
\*   pc             "read" while the read loop runs, then "returned"
NewRoute(text) ==
    [text           |-> text,
     pos            |-> 0,
     deltas         |-> 0,
     cuts           |-> {},
     skipped        |-> FALSE,
     sentenceBuffer |-> << >>,
     sentenceIndex  |-> 0,
     insideThinking |-> FALSE,
     aborted        |-> FALSE,
     res            |-> << >>,
     ended          |-> FALSE,
     pc             |-> "read"]

\* res.write(event)
write(r, event) == [r EXCEPT !.res = Append(@, event)]

\* res.end() and the end of the handler
end(r) == [r EXCEPT !.ended = TRUE, !.pc = "returned"]

\* writeSentence that never advances sentenceIndex
writeSentence_SameIndex(r, text) ==
    IF Len(text) > 0 /\ ~r.aborted
    THEN write(r, [type |-> "sentence", index |-> r.sentenceIndex,
                   text |-> text])
    ELSE r

\* one cleaned sentence is written with the next index
\* (server.js:212-216, 228-231)
writeSentence(r, text) ==
    IF Len(text) > 0 /\ ~r.aborted
    THEN [write(r, [type |-> "sentence", index |-> r.sentenceIndex,
                    text |-> text])
          EXCEPT !.sentenceIndex = @ + 1]
    ELSE r

\* for (const sentence of sentences) (server.js:211-217)
RECURSIVE writeSentences(_, _)
writeSentences(r, sentences) ==
    IF sentences = << >> THEN r
    ELSE writeSentences(writeSentence(r, cleanText(Head(sentences))),
                        Tail(sentences))

\* forward that writes the token event to a client that has gone
forward_IgnoresAbort(r, text) == write(r, [type |-> "token", token |-> text])

\* the token event of one delta (server.js:188-192)
forward(r, text) ==
    IF r.aborted THEN r ELSE write(r, [type |-> "token", token |-> text])

\* detect that empties the accumulator once a sentence was found
detect_DropsRest(r, buf) ==
    LET sc == scanSentences(buf, 1, 1, << >>)
    IN  writeSentences([r EXCEPT !.sentenceBuffer =
                           IF sc.sentences = << >> THEN buf ELSE << >>],
                       sc.sentences)

\* sentence detection on the accumulated text buf (server.js:196-218)
detect(r, buf) ==
    LET sc == scanSentences(buf, 1, 1, << >>)
    IN  writeSentences([r EXCEPT !.sentenceBuffer =
                           IF sc.sentences = << >> THEN buf
                           ELSE From(buf, sc.lastIndex)],
                       sc.sentences)

\* accumulate that writes the sentence events before the token event
accumulate_DetectFirst(r, text) ==
    forward(detect(r, r.sentenceBuffer \o text), text)

\* the visible text of one delta is forwarded and accumulated
\* (server.js:188-218)
accumulate(r, text) == detect(forward(r, text), r.sentenceBuffer \o text)

\* the body of the loop over the lines for one frame whose delta content
\* is content (server.js:179-219)
onContent(r, content) ==
    LET st == stripThinking(content, r.insideThinking)
    IN  IF content = << >> THEN r
        ELSE IF st.text = << >>
             THEN [r EXCEPT !.insideThinking = st.insideThinking]
             ELSE accumulate([r EXCEPT !.insideThinking = st.insideThinking],
                             st.text)

\* flush that writes the done event without the remaining text
flush_DropsRemainder(r) ==
    IF r.aborted THEN end(r)
    ELSE end(write(r, [type          |-> "done",
                       sentenceCount |-> r.sentenceIndex]))

\* flush that writes the done event before the remaining text
flush_DoneFirst(r) ==
    IF r.aborted THEN end(r)
    ELSE end(writeSentence(write(r, [type          |-> "done",
                                     sentenceCount |-> r.sentenceIndex]),
                           cleanText(r.sentenceBuffer)))

\* the flush after the loop (server.js:226-236)
flush(r) ==
    IF r.aborted THEN end(r)
    ELSE LET r1 == writeSentence(r, cleanText(r.sentenceBuffer))
         IN  end(write(r1, [type          |-> "done",
                            sentenceCount |-> r1.sentenceIndex]))

\* skipFrame that empties the sentence accumulator
skipFrame_ClearsBuffer(r) ==
    [r EXCEPT !.skipped = TRUE, !.sentenceBuffer = << >>]

\* the body of the loop over the lines for a line that is not a data line,
\* for "[DONE]", for a payload that JSON.parse rejects and for a frame
\* without delta content: continue or the empty catch block
\* (server.js:175, 177, 179-181, 220-222)
skipFrame(r) == [r EXCEPT !.skipped = TRUE]

\* while (!aborted) (server.js:165): after a chunk has been handled the
\* loop is left when the client has gone
loopHead(r) == IF r.aborted THEN flush(r) ELSE r

\* catch that ends the response without an error event
catch_EndsOnly(r) ==
    IF r.aborted THEN [r EXCEPT !.pc = "returned"] ELSE end(r)

\* the catch block (server.js:237-243)
catch(r) ==
    IF r.aborted THEN [r EXCEPT !.pc = "returned"]
    ELSE end(write(r, [type |-> "error"]))

\* the upstream request is refused (server.js:122-129)
refused(r) == end(write(r, [type |-> "error"]))

\* ------------------------------------------------------------------------
\* VAD (src/unnamed/part_003:274-308).  Energies are in thousandths, wall
\* clock times in units of 50 ms.
\* ------------------------------------------------------------------------
\* the values AudioCapture.getRMSLevel returns: below, at and between the
\* two thresholds, and above the upper one
RmsLevels == {5, SILENCE_THRESHOLD, 12, SPEECH_THRESHOLD, 25}

\* The VAD object with the clock it reads and what is needed to observe it:
\*   enabled, speechDetected, silenceStart   its fields (part_003:275-277)
\*   now         Date.now()
\*   quietSince  the time of the first of the latest samples that were all
\*               below SILENCE_THRESHOLD, 0 when the last sample was not
\*   fired       the callback the last call of monitor invoked: "none",
\*               "start" (onSpeechStart) or "end" (onSpeechEnd)
NewVAD ==
    [enabled        |-> FALSE,
     speechDetected |-> FALSE,
     silenceStart   |-> 0,
     now            |-> 1,
     quietSince     |-> 0,
     fired          |-> "none"]

\* VAD.monitor for one sample rms (part_003:292-308)
monitor(v, rms) ==
    IF ~v.enabled THEN [v EXCEPT !.fired = "none"]
    ELSE IF rms > SPEECH_THRESHOLD
    THEN [v EXCEPT !.speechDetected = TRUE,
                   !.silenceStart   = 0,
                   !.fired = IF v.speechDetected THEN "none" ELSE "start"]
    ELSE IF rms < SILENCE_THRESHOLD /\ v.speechDetected
    THEN IF v.silenceStart = 0
         THEN [v EXCEPT !.silenceStart = v.now, !.fired = "none"]
         ELSE IF v.now - v.silenceStart > SILENCE_DURATION
         THEN [v EXCEPT !.speechDetected = FALSE,
                        !.silenceStart   = 0,
                        !.fired          = "end"]
         ELSE [v EXCEPT !.fired = "none"]
    ELSE [v EXCEPT !.fired = "none"]

\* the sample rms is taken: the run of quiet samples goes on or ends
sampled(v, rms) ==
    [v EXCEPT !.quietSince = IF rms < SILENCE_THRESHOLD
                             THEN (IF @ = 0 THEN v.now ELSE @)
                             ELSE 0]

\* VAD.start (part_003:281-288)
VAD_start(v, rms) ==
    monitor(sampled([v EXCEPT !.enabled        = TRUE,
                              !.speechDetected = FALSE,
                              !.silenceStart   = 0], rms), rms)

\* VAD.stop (part_003:290)
VAD_stop(v) == [v EXCEPT !.enabled = FALSE, !.speechDetected = FALSE,
                     !.fired = "none"]

\* ------------------------------------------------------------------------
\* State
\* ------------------------------------------------------------------------
VARIABLES
    aq,                 \* one AudioQueueManager driven directly (SpecQueue)
    currentTime,        \* audioContext.currentTime
    current,            \* StateMachine.current
    ttsEnabled,         \* Drishti.ttsEnabled
    pipelineBusy,       \* Drishti.pipelineBusy
    interactionVersion, \* Drishti.interactionVersion
    currentQueue,       \* Drishti.currentQueue: 0 (null) or the turn whose
                        \* AudioQueueManager it references
    turns,              \* the invocations of stopListeningAndProcess, by the
                        \* interactionVersion they started under
    added,              \* the TranscriptUI.addEntry calls of the last step:
                        \* "user" (part_003:853), "error" (part_003:911)
    conversationHistory,  \* API.conversationHistory
    activeChatController, \* API.activeChatController
    route,              \* one invocation of the /api/chat route of the
                        \* server (server.js:85-244)
    vad,                \* the VAD object and the wall clock it reads
    jarvis              \* the Jarvis controller of part_002 with its VAD,
                        \* its turns and their queues

drishtiVars == <<current, ttsEnabled, pipelineBusy, interactionVersion,
                 currentQueue, turns, added>>
apiVars == <<conversationHistory, activeChatController>>
vars == <<aq, currentTime, current, ttsEnabled, pipelineBusy,
          interactionVersion, currentQueue, turns, added,
          conversationHistory, activeChatController, route, vad, jarvis>>

Turns == 1 .. MaxTurns

\* The locals of one invocation of stopListeningAndProcess and the
\* requests it has issued:
\*   pc            "none" (not invoked), "stopRecording", "transcribe",
\*                 "chat", "waitCompletion" (the await it is suspended at)
\*                 or "done" (its finally block has run)
\*   runVersion    const runVersion (part_003:840)
\*   clip          stopRecording will resolve with a clip, not with null
\*   hasQueue, q   let audioQueue (part_003:862-869): non-null, the object
\*   sentenceCount let sentenceCount (part_003:863)
\*   tts           ttsPromises by sentence index: "none" (not requested),
\*                 "pending", "enqueued" or "failed"
\*   received      number of sentence events read from the chat stream
\*   doneSeen      the done event was read
\*   armed, total  Promise.all(ttsPromises).then(markAllEnqueued(total)) is
\*                 registered and has not run yet
NewTurn ==
    [ pc            |-> "none",
      runVersion    |-> 0,
      clip          |-> FALSE,
      hasQueue      |-> FALSE,
      q             |-> NewAudioQueueManager,
      sentenceCount |-> 0,
      tts           |-> [i \in Indices |-> "none"],
      received      |-> 0,
      doneSeen      |-> FALSE,
      armed         |-> FALSE,
      total         |-> 0 ]

\* the controller's state as one value, for the handlers below
World ==
    [ current            |-> current,
      ttsEnabled         |-> ttsEnabled,
      pipelineBusy       |-> pipelineBusy,
      interactionVersion |-> interactionVersion,
      currentQueue       |-> currentQueue,
      turns              |-> turns,
      added              |-> << >>,
      api                |-> [conversationHistory  |-> conversationHistory,
                              activeChatController |-> activeChatController] ]

\* the source nodes that have not ended, in creation order; what is recorded
\* about their scheduling is read by no handler and is blanked
RECURSIVE Unended(_)
Unended(srcs) ==
    IF srcs = << >> THEN << >>
    ELSE IF Head(srcs).ended THEN Unended(Tail(srcs))
    ELSE <<[Head(srcs) EXCEPT !.at = 0, !.start = 0, !.end = 0,
                              !.epoch = 0, !.waiting = {}]>>
         \o Unended(Tail(srcs))

\* What can no longer influence the controller is dropped from a turn:
\* source nodes that have ended; once the invocation has returned, its
\* locals and the record of the requests that have settled; and the
\* AudioQueueManager itself once the invocation has returned and neither
\* a pending request nor an unended source node refers to it.
Reclaim(tr) ==
    LET tr1 == [tr EXCEPT !.q.sources = Unended(@)]
    IN  IF tr.pc # "done" THEN tr1
        ELSE IF /\ \A i \in Indices : tr.tts[i] # "pending"
                /\ tr1.q.sources = << >>
             THEN [NewTurn EXCEPT !.pc = "done", !.runVersion = tr.runVersion]
             ELSE [tr1 EXCEPT !.clip = FALSE,
                              !.hasQueue = FALSE,
                              !.sentenceCount = 0,
                              !.received = 0,
                              !.doneSeen = FALSE,
                              !.total = IF tr.armed THEN @ ELSE 0,
                              !.tts = [i \in Indices |->
                                         IF tr.tts[i] = "pending" THEN "pending"
                                         ELSE "none"],
                              !.q.arrived = {},
                              !.q.waitCalled = FALSE,
                              !.q.markCalled = FALSE,
                              !.q.resolvedBy = "none",
                              !.q.resolveCalls = 0]

Commit(w) ==
    /\ current' = w.current
    /\ ttsEnabled' = w.ttsEnabled
    /\ pipelineBusy' = w.pipelineBusy
    /\ interactionVersion' = w.interactionVersion
    /\ currentQueue' = w.currentQueue
    /\ turns' = [t \in Turns |-> Reclaim(w.turns[t])]
    /\ added' = w.added
    /\ conversationHistory' = w.api.conversationHistory
    /\ activeChatController' = w.api.activeChatController

\* StateMachine.transition (part_003:113-118)
transition(w, newState) ==
    IF w.current = newState THEN w ELSE [w EXCEPT !.current = newState]

\* returnToIdle (part_003:919-923)
returnToIdle(w) == transition(w, IDLE)

\* finally that does not release pipelineBusy
finallyBlock_KeepsBusy(w, t) ==
    LET w1 == [w EXCEPT !.currentQueue = 0,
                        !.turns[t].pc = "done"]
    IN  IF w.turns[t].runVersion = w.interactionVersion
        THEN returnToIdle(w1)
        ELSE w1

\* finally of stopListeningAndProcess (part_003:912-916)
finallyBlock(w, t) ==
    LET w1 == [w EXCEPT !.currentQueue = 0,
                        !.pipelineBusy = FALSE,
                        !.turns[t].pc = "done"]
    IN  IF w.turns[t].runVersion = w.interactionVersion
        THEN returnToIdle(w1)
        ELSE w1

\* mutant: the failure is written to the console only
catchBlock_Silent(w, t) == finallyBlock(w, t)

\* catch of stopListeningAndProcess, followed by its finally
\* (part_003:908-916): TranscriptUI.addEntry('assistant', 'Error: ...')
catchBlock(w, t) ==
    finallyBlock([w EXCEPT !.added = Append(@, "error")], t)

\* every synthesis request of the turn has settled
AllSettled(tr) == \A i \in Indices : tr.tts[i] # "pending"

\* Settle in which markAllEnqueued does not wait for the requests that
\* are still pending
Settle_Eager(w, t) ==
    LET tr == w.turns[t]
        w1 == IF tr.armed
              THEN [w EXCEPT !.turns[t].q = markAllEnqueued(@, tr.total),
                             !.turns[t].armed = FALSE]
              ELSE w
    IN  IF w1.turns[t].pc = "waitCompletion" /\ w1.turns[t].q.resolveCalls > 0
        THEN finallyBlock(w1, t)
        ELSE w1

\* The promise reactions that run before the next event is handled:
\* Promise.all(ttsPromises).then(...) once every request has settled
\* (part_003:897-899), then the continuation of the turn suspended at
\* await audioQueue.waitForCompletion() once the future is resolved
\* (part_003:906, 912-916)
Settle(w, t) ==
    LET tr == w.turns[t]
        w1 == IF tr.armed /\ AllSettled(tr)
              THEN [w EXCEPT !.turns[t].q = markAllEnqueued(@, tr.total),
                             !.turns[t].armed = FALSE]
              ELSE w
    IN  IF w1.turns[t].pc = "waitCompletion" /\ w1.turns[t].q.resolveCalls > 0
        THEN finallyBlock(w1, t)
        ELSE w1

\* startListening that leaves interactionVersion as it is
startListening_SameVersion(w) == transition(w, LISTENING)

\* startListening (part_003:829-835)
startListening(w) ==
    transition([w EXCEPT !.interactionVersion = @ + 1], LISTENING)

\* mutant: a press interrupts whatever is going on
handlePressStart_Always(w) == startListening(w)

\* mutant: a press during Speaking starts listening although the pipeline
\* is busy
handlePressStart_BargeIn(w) ==
    IF w.current = SPEAKING \/ w.current = IDLE THEN startListening(w) ELSE w

\* handlePressStart (part_003:815-823)
handlePressStart(w) ==
    IF w.pipelineBusy THEN w
    ELSE IF w.current = IDLE THEN startListening(w)
    ELSE w

\* the times, in units of 50 ms, after which a capture is stopped: just
\* below, at and above the minimum
Elapsed ==
    {MIN_RECORDING_DURATION - 1, MIN_RECORDING_DURATION,
     MIN_RECORDING_DURATION + 1}

\* stopRecording that keeps every capture
stopRecording_KeepsAll(elapsed) == TRUE

\* AudioCapture.stopRecording (part_003:193-206) called while recording,
\* elapsed after startRecording: TRUE when it resolves with a Blob, FALSE
\* when it resolves with null
stopRecording(elapsed) == ~(elapsed < MIN_RECORDING_DURATION)

\* stopListeningAndProcess that does not capture interactionVersion
stopListeningAndProcess_NoCapture(w, elapsed) ==
    IF w.pipelineBusy THEN w
    ELSE LET t == w.interactionVersion
         IN  transition([w EXCEPT !.pipelineBusy = TRUE,
                                  !.turns[t].clip = stopRecording(elapsed),
                                  !.turns[t].pc = "stopRecording"],
                        PROCESSING)

\* stopListeningAndProcess up to its first suspension, at
\* await AudioCapture.stopRecording() (part_003:837-847).
\* elapsed: Date.now() - recordingStartTime when stopRecording is called
stopListeningAndProcess(w, elapsed) ==
    IF w.pipelineBusy THEN w
    ELSE LET t == w.interactionVersion
         IN  transition([w EXCEPT !.pipelineBusy = TRUE,
                                  !.turns[t].runVersion = w.interactionVersion,
                                  !.turns[t].clip = stopRecording(elapsed),
                                  !.turns[t].pc = "stopRecording"],
                        PROCESSING)

\* stopListeningAndProcess resumed with the result of stopRecording
\* (part_003:847-851): without a clip it returns, otherwise it requests
\* the transcription
afterStopRecording(w, t) ==
    IF ~w.turns[t].clip THEN finallyBlock(w, t)
    ELSE [w EXCEPT !.turns[t].pc = "transcribe"]

\* handlePressEnd (part_003:825-827)
handlePressEnd(w, elapsed) ==
    IF w.current = LISTENING THEN stopListeningAndProcess(w, elapsed) ELSE w

\* mutant: an empty transcript is sent to the chat route like any other
afterTranscribe_NoEmptyCheck(w, t, outcome) ==
    IF outcome = "error" THEN catchBlock(w, t)
    ELSE LET w0 == [w EXCEPT !.added = Append(@, "user")]
             w1 == transition(w0, STREAMING)
             w2 == IF w1.ttsEnabled
                   THEN [w1 EXCEPT !.turns[t].hasQueue = TRUE, !.currentQueue = t]
                   ELSE w1
         IN  [w2 EXCEPT !.turns[t].pc = "chat",
                        !.api = chatStream(@, t, t)]

\* stopListeningAndProcess from the transcript to the chat request
\* (part_003:851-871); outcome: transcribe threw ("error"), the text is
\* empty or blank ("empty"), or it is the text of utterance t ("text")
afterTranscribe(w, t, outcome) ==
    IF outcome = "error" THEN catchBlock(w, t)
    ELSE IF outcome = "empty" THEN finallyBlock(w, t)
    ELSE LET w0 == [w EXCEPT !.added = Append(@, "user")]
             w1 == transition(w0, STREAMING)
             w2 == IF w1.ttsEnabled
                   THEN [w1 EXCEPT !.turns[t].hasQueue = TRUE, !.currentQueue = t]
                   ELSE w1
         IN  [w2 EXCEPT !.turns[t].pc = "chat",
                        !.api = chatStream(@, t, t)]

\* onSentence up to the request (part_003:877-881, 891)
onSentence(w, t, idx) ==
    IF ~w.ttsEnabled \/ ~w.turns[t].hasQueue THEN w
    ELSE [w EXCEPT !.turns[t].sentenceCount = @ + 1,
                   !.turns[t].tts[idx] = "pending"]

\* onDone (part_003:894-901); count is data.sentenceCount
onDone(w, t, count) ==
    IF w.ttsEnabled /\ w.turns[t].hasQueue
    THEN [w EXCEPT !.turns[t].armed = TRUE,
                   !.turns[t].total = IF count # 0 THEN count
                                      ELSE w.turns[t].sentenceCount]
    ELSE w

\* mutant: a failed synthesis takes the error path of the turn
ttsSettled_FailureAborts(w, t, idx, ok, buf, now) ==
    IF ok
    THEN LET w1 == IF idx = 0 THEN transition(w, SPEAKING) ELSE w
         IN  [w1 EXCEPT !.turns[t].q = enqueue(@, idx, buf, now),
                        !.turns[t].tts[idx] = "enqueued"]
    ELSE catchBlock([w EXCEPT !.turns[t].tts[idx] = "failed"], t)

\* the callbacks of one synthesis request (part_003:882-890): decoded
\* buffer, or a failure that is logged
ttsSettled(w, t, idx, ok, buf, now) ==
    IF ok
    THEN LET w1 == IF idx = 0 THEN transition(w, SPEAKING) ELSE w
         IN  [w1 EXCEPT !.turns[t].q = enqueue(@, idx, buf, now),
                        !.turns[t].tts[idx] = "enqueued"]
    ELSE [w EXCEPT !.turns[t].tts[idx] = "failed"]

\* chatStream threw into stopListeningAndProcess (part_003:419-421,
\* 908-916)
chatFailed(w, t) ==
    catchBlock([w EXCEPT !.api = chatStreamThrow(@, t)], t)

\* chatStream returned into stopListeningAndProcess (part_003:417-418,
\* 904-907)
afterChat(w, t) ==
    LET w0 == [w EXCEPT !.api = chatStreamReturn(@, t, t)]
    IN  IF w0.ttsEnabled /\ w0.turns[t].hasQueue
        THEN [w0 EXCEPT !.turns[t].q = waitForCompletion(@),
                        !.turns[t].pc = "waitCompletion"]
        ELSE finallyBlock(w0, t)

\* ------------------------------------------------------------------------
\* Jarvis (src/unnamed/part_002:784-1026): the controller with push-to-talk
\* and VAD mode, in which a press during Speaking interrupts.  It is served
\* by the chat route of src/unnamed/part_001, whose events are
\* {index, text, done}.
\* ------------------------------------------------------------------------
\* The controller and what it drives:
\*   current       StateMachine.current
\*   vadMode       Jarvis.vadMode
\*   vad           the VAD object (part_002:178-229) and the wall clock
\*   frames        the number of requestAnimationFrame callbacks of
\*                 VAD.monitor that are pending (part_002:228)
\*   by            what started the Listening phase: "none", "press",
\*                 "vad" (onSpeechStart) or "toggled" (onSpeechStart, and
\*                 the mode toggle has been clicked since)
\*   recording     AudioCapture.recorder.state === 'recording'
\*   currentQueue  Jarvis.currentQueue: 0 (null) or the turn whose
\*                 AudioQueueManager it references
\*   turns         the invocations of stopListeningAndProcess, in the order
\*                 they were made; of NewTurn, runVersion and hasQueue are
\*                 not used and total is sentenceCount when the last
\*                 sentence arrives
\*   invoked       the number of invocations so far
\*   history       the roles of API.conversationHistory (part_002:330)
NewJarvis ==
    [ current      |-> IDLE,
      vadMode      |-> TRUE,
      vad          |-> NewVAD,
      frames       |-> 0,
      by           |-> "none",
      recording    |-> FALSE,
      currentQueue |-> 0,
      turns        |-> [t \in Turns |-> NewTurn],
      invoked      |-> 0,
      history      |-> << >> ]

\* Jarvis.startListening (part_002:927-932): VAD.stop(),
\* AudioCapture.startRecording(), transition to Listening
Jarvis_startListening(w, by) ==
    [w EXCEPT !.vad       = VAD_stop(@),
              !.recording = TRUE,
              !.current   = LISTENING,
              !.by        = by]

\* Jarvis.stopListeningAndProcess up to its first suspension, at
\* await AudioCapture.stopRecording() (part_002:934-939)
Jarvis_stopListeningAndProcess(w, elapsed) ==
    LET t == w.invoked + 1
    IN  [w EXCEPT !.current        = PROCESSING,
                  !.invoked        = t,
                  !.recording      = FALSE,
                  !.turns[t].clip  = stopRecording(elapsed),
                  !.turns[t].pc    = "stopRecording"]

\* the callbacks that monitor has invoked (part_002:909-924):
\* onSpeechStart starts listening when the session is Idle, onSpeechEnd
\* stops and processes when it is Listening; then monitor goes on
\* (part_002:218, 222-223) and requests the next animation frame
monitored(w, elapsed) ==
    LET fired == w.vad.fired
        w1 == IF fired = "start" /\ w.current = IDLE
              THEN [Jarvis_startListening(w, "vad")
                       EXCEPT !.vad.silenceStart = 0]
              ELSE IF fired = "end" /\ w.current = LISTENING
              THEN Jarvis_stopListeningAndProcess(w, elapsed)
              ELSE w
    IN  [w1 EXCEPT !.frames = @ + 1]

\* Jarvis.startVADMode (part_002:907-925); rms is the sample that the
\* call of monitor in VAD.start takes.  VAD.start has reset speechDetected,
\* so this call of monitor does not invoke onSpeechEnd and no recording is
\* stopped.
startVADMode(w, rms) ==
    IF w.current # IDLE THEN w
    ELSE monitored([w EXCEPT !.vad = VAD_start(@, rms)], 0)

\* the callback of requestAnimationFrame (part_002:228, 200-201): monitor
\* returns at once when the VAD has been stopped
animationFrame(w, rms, elapsed) ==
    LET w1 == [w EXCEPT !.frames = @ - 1]
    IN  IF ~w.vad.enabled THEN w1
        ELSE monitored([w1 EXCEPT !.vad = monitor(sampled(@, rms), rms)],
                       elapsed)

\* Jarvis.returnToIdle (part_002:1002-1010)
Jarvis_returnToIdle(w, rms) ==
    LET w1 == [w EXCEPT !.current = IDLE]
    IN  IF w1.vadMode THEN startVADMode(w1, rms) ELSE w1

\* the end of stopListeningAndProcess after the try statement
\* (part_002:998-999)
Jarvis_finish(w, t, rms) ==
    Jarvis_returnToIdle([w EXCEPT !.currentQueue = 0,
                                  !.turns[t].pc  = "done"], rms)

\* an early return of stopListeningAndProcess (part_002:940-943, 948-951)
Jarvis_return(w, t, rms) ==
    Jarvis_returnToIdle([w EXCEPT !.turns[t].pc = "done"], rms)

\* the promise reactions that run before the next event is handled:
\* Promise.all(ttsPromises).then(...) once every request has settled
\* (part_002:984-986), then the continuation of a turn suspended at
\* await audioQueue.waitForCompletion() whose future is resolved
\* (part_002:993, 998-999)
Jarvis_Settle(w, t, rms) ==
    LET tr == w.turns[t]
        w1 == IF tr.armed /\ AllSettled(tr)
              THEN [w EXCEPT !.turns[t].q = markAllEnqueued(@, tr.total),
                             !.turns[t].armed = FALSE]
              ELSE w
    IN  IF w1.turns[t].pc = "waitCompletion" /\ w1.turns[t].q.resolveCalls > 0
        THEN Jarvis_finish(w1, t, rms)
        ELSE w1

\* Jarvis.handlePressStart (part_002:878-899)
Jarvis_handlePressStart(w) ==
    IF w.current = SPEAKING
    THEN Jarvis_startListening(
             IF w.currentQueue # 0
             THEN [w EXCEPT !.turns[w.currentQueue].q = clear(@)]
             ELSE w, "press")
    ELSE IF w.current = IDLE /\ ~w.vadMode
    THEN Jarvis_startListening(w, "press")
    ELSE w

\* Jarvis.handlePressEnd (part_002:901-905)
Jarvis_handlePressEnd(w, elapsed) ==
    IF w.current = LISTENING /\ ~w.vadMode
    THEN Jarvis_stopListeningAndProcess(w, elapsed)
    ELSE w

\* the click handler of the mode toggle (part_002:863-875)
modeToggle(w, rms) ==
    IF ~w.vadMode
    THEN startVADMode([w EXCEPT !.vadMode = TRUE], rms)
    ELSE [w EXCEPT !.vadMode = FALSE, !.vad = VAD_stop(@)]

\* stopListeningAndProcess resumed with the result of stopRecording
\* (part_002:939-943)
Jarvis_afterStopRecording(w, t, rms) ==
    IF ~w.turns[t].clip THEN Jarvis_return(w, t, rms)
    ELSE [w EXCEPT !.turns[t].pc = "transcribe"]

\* the catch block of stopListeningAndProcess and what follows it
\* (part_002:994-999)
Jarvis_catch(w, t, rms) == Jarvis_finish(w, t, rms)

\* stopListeningAndProcess from the transcript to the chat request
\* (part_002:946-960, 329-334); outcome as for afterTranscribe
Jarvis_afterTranscribe(w, t, outcome, rms) ==
    IF outcome = "error" THEN Jarvis_catch(w, t, rms)
    ELSE IF outcome = "empty" THEN Jarvis_return(w, t, rms)
    ELSE [w EXCEPT !.currentQueue = t,
                   !.turns[t].pc  = "chat",
                   !.history      = SliceLast(Append(@, "user"), MAX_HISTORY)]

\* the onSentence callback for an event with a text (part_002:960-988);
\* done is the flag of the event
Jarvis_onSentence(w, t, idx, done) ==
    LET w1 == [w EXCEPT !.turns[t].sentenceCount = @ + 1,
                        !.turns[t].tts[idx] = "pending"]
    IN  IF done
        THEN [w1 EXCEPT !.turns[t].armed = TRUE,
                        !.turns[t].total = w1.turns[t].sentenceCount]
        ELSE w1

\* the callbacks of one synthesis request (part_002:966-979)
Jarvis_ttsSettled(w, t, idx, ok, buf, now) ==
    IF ok
    THEN [w EXCEPT !.current = IF idx = 0 THEN SPEAKING ELSE @,
                   !.turns[t].q = enqueue(@, idx, buf, now),
                   !.turns[t].tts[idx] = "enqueued"]
    ELSE [w EXCEPT !.turns[t].tts[idx] = "failed"]

\* chatStream returned into stopListeningAndProcess (part_002:370-371,
\* 990-993)
Jarvis_afterChat(w, t) ==
    [w EXCEPT !.history     = Append(@, "assistant"),
              !.turns[t].q  = waitForCompletion(@),
              !.turns[t].pc = "waitCompletion"]

\* ------------------------------------------------------------------------
\* SpecPlayback, SpecQueue: one AudioQueueManager and its callers
\* ------------------------------------------------------------------------
InitDrishti ==
    /\ current = IDLE
    /\ ttsEnabled = FALSE
    /\ pipelineBusy = FALSE
    /\ interactionVersion = 0
    /\ currentQueue = 0
    /\ turns = [t \in Turns |-> NewTurn]
    /\ added = << >>
    /\ conversationHistory = NewAPI.conversationHistory
    /\ activeChatController = NewAPI.activeChatController

Init ==
    /\ aq = NewAudioQueueManager
    /\ currentTime = 0
    /\ InitDrishti
    /\ route = NewRoute(<< >>)
    /\ vad = NewVAD
    /\ jarvis = NewJarvis

\* a synthesis result arrives: enqueue(index, buffer).  Every index is
\* synthesised once per turn (part_003:881), in any order, and all
\* results arrive before markAllEnqueued is called (part_003:897).
Enqueue ==
    \E i \in Indices \ aq.arrived : \E d \in Durations :
        /\ ~aq.markCalled
        /\ aq' = enqueue(aq, i, d, currentTime)
        /\ UNCHANGED <<currentTime, drishtiVars, apiVars, route, vad, jarvis>>

\* Promise.all(ttsPromises).then(() => markAllEnqueued(total)), once per
\* queue (part_003:897-899); total is the number of sentence units of the
\* turn, so every index that arrived is below it, while an index whose
\* synthesis failed never arrives
MarkAllEnqueued ==
    \E total \in 0 .. MaxSentences :
        /\ ~aq.markCalled
        /\ \A i \in aq.arrived : i < total
        /\ aq' = markAllEnqueued(aq, total)
        /\ UNCHANGED <<currentTime, drishtiVars, apiVars, route, vad, jarvis>>

\* await audioQueue.waitForCompletion(), once per queue (part_003:906)
WaitForCompletion ==
    /\ ~aq.waitCalled
    /\ aq' = waitForCompletion(aq)
    /\ UNCHANGED <<currentTime, drishtiVars, apiVars, route, vad, jarvis>>

\* the end event of a started buffer
BufferEnd ==
    \E k \in NextToEnd(aq, currentTime) :
        /\ aq' = onended(aq, k, currentTime)
        /\ UNCHANGED <<currentTime, drishtiVars, apiVars, route, vad, jarvis>>

\* currentQueue.clear() on an interruption, once per queue
\* (part_002:889)
Clear ==
    /\ aq.clears = 0
    /\ aq' = clear(aq)
    /\ UNCHANGED <<currentTime, drishtiVars, apiVars, route, vad, jarvis>>

\* the audio clock advances
Tick ==
    /\ \/ currentTime < MaxTime
       \/ \E k \in Audible(aq) : aq.sources[k].end > currentTime
    /\ currentTime' = currentTime + 1
    /\ UNCHANGED <<aq, drishtiVars, apiVars, route, vad, jarvis>>

\* the scheduler without interruptions
NextPlayback ==
    \/ Enqueue
    \/ MarkAllEnqueued
    \/ WaitForCompletion
    \/ BufferEnd
    \/ Tick

SpecPlayback == Init /\ [][NextPlayback]_vars

\* every started buffer ends: the audio clock runs and the end event of a
\* buffer whose end has been reached is delivered
FairSpecPlayback ==
    SpecPlayback /\ WF_vars(Tick) /\ WF_vars(BufferEnd)

NextQueue ==
    \/ NextPlayback
    \/ Clear

SpecQueue == Init /\ [][NextQueue]_vars

\* ------------------------------------------------------------------------
\* SpecHistory: the API object and the calls of chatStream.  The calls come
\* one after the other, as pipelineBusy allows one turn at a time
\* (part_003:838-839); each either returns or throws.  The n-th call
\* carries utterance n.
\* ------------------------------------------------------------------------
APIState ==
    [conversationHistory  |-> conversationHistory,
     activeChatController |-> activeChatController]

CommitAPI(api) ==
    /\ conversationHistory' = api.conversationHistory
    /\ activeChatController' = api.activeChatController
    /\ UNCHANGED <<aq, currentTime, drishtiVars, route, vad, jarvis>>

\* the number of the next utterance: one more than the content of the
\* newest entry
NextUtterance ==
    IF conversationHistory = << >> THEN 1
    ELSE conversationHistory[Len(conversationHistory)].content + 1

\* API.chatStream(userText, ...) is called (part_003:343-351)
ChatStreamCall ==
    /\ activeChatController = 0
    /\ NextUtterance <= MaxChats
    /\ CommitAPI(chatStream(APIState, NextUtterance, NextUtterance))

\* the response was read to its end (part_003:417-418)
ChatStreamReturn ==
    /\ activeChatController # 0
    /\ CommitAPI(chatStreamReturn(APIState, activeChatController,
                                  activeChatController))

\* the request or the stream failed (part_003:369, 390, 419-421)
ChatStreamThrow ==
    /\ activeChatController # 0
    /\ CommitAPI(chatStreamThrow(APIState, activeChatController))

NextHistory ==
    \/ ChatStreamCall
    \/ ChatStreamReturn
    \/ ChatStreamThrow

SpecHistory == Init /\ [][NextHistory]_vars

\* ------------------------------------------------------------------------
\* Spec: the Drishti controller, its turns and their playback queues.
\*
\* No decision of the controller reads the audio clock or a buffer's
\* duration, so here the clock is not advanced and every decoded buffer
\* has the duration MaxDur; the end events of a queue's buffers are
\* delivered in the order in which the buffers were scheduled.  The
\* scheduling times themselves are the subject of SpecQueue.
\* ------------------------------------------------------------------------
\* mousedown / touchstart / Space keydown (part_003:751-765)
PressStart ==
    /\ handlePressStart(World).interactionVersion <= MaxTurns + 1
    /\ \E w \in {handlePressStart(World)} : Commit(w)
    /\ UNCHANGED <<aq, currentTime, route, vad, jarvis>>

\* mouseup / touchend / Space keyup (part_003:752-768)
PressEnd ==
    \E elapsed \in Elapsed :
        /\ current = LISTENING => interactionVersion \in Turns
        /\ \E w \in {handlePressEnd(World, elapsed)} : Commit(w)
        /\ UNCHANGED <<aq, currentTime, route, vad, jarvis>>

\* click on the TTS toggle (part_003:771-775)
ToggleTts ==
    /\ ttsEnabled' = ~ttsEnabled
    /\ added' = << >>
    /\ UNCHANGED <<aq, currentTime, current, pipelineBusy, interactionVersion,
                   currentQueue, turns, apiVars, route, vad, jarvis>>

\* stopRecording resolves, with null or from recorder.onstop with the
\* clip (part_003:193-206)
RecorderStopped(t) ==
    /\ turns[t].pc = "stopRecording"
    /\ \E w \in {afterStopRecording(World, t)} : Commit(w)
    /\ UNCHANGED <<aq, currentTime, route, vad, jarvis>>

\* API.transcribe settles: a text, an empty text, or a failure
TranscribeOutcome(t, outcome) ==
    /\ turns[t].pc = "transcribe"
    /\ \E w \in {afterTranscribe(World, t, outcome)} : Commit(w)
    /\ UNCHANGED <<aq, currentTime, route, vad, jarvis>>

TranscribeSettled(t) ==
    \E outcome \in {"text", "empty", "error"} : TranscribeOutcome(t, outcome)

\* a sentence event is read from the chat stream; the server numbers them
\* 0, 1, 2, ... (server.js:215-216)
StreamSentence(t) ==
    /\ turns[t].pc = "chat"
    /\ ~turns[t].doneSeen
    /\ turns[t].received < MaxSentences
    /\ \E w \in {[onSentence(World, t, turns[t].received)
                    EXCEPT !.turns[t].received = @ + 1]} :
           \E w1 \in {Settle(w, t)} : Commit(w1)
    /\ UNCHANGED <<aq, currentTime, route, vad, jarvis>>

\* the done event is read; its sentenceCount is the number of sentence
\* events written before it (server.js:233)
StreamDone(t) ==
    /\ turns[t].pc = "chat"
    /\ ~turns[t].doneSeen
    /\ \E w \in {[onDone(World, t, turns[t].received)
                    EXCEPT !.turns[t].doneSeen = TRUE]} :
           \E w1 \in {Settle(w, t)} : Commit(w1)
    /\ UNCHANGED <<aq, currentTime, route, vad, jarvis>>

\* the chat request fails or an error event is read (part_003:369, 390)
StreamError(t) ==
    /\ turns[t].pc = "chat"
    /\ \E w \in {chatFailed(World, t)} : Commit(w)
    /\ UNCHANGED <<aq, currentTime, route, vad, jarvis>>

\* the response body ends after the done event: chatStream returns
StreamEnd(t) ==
    /\ turns[t].pc = "chat"
    /\ turns[t].doneSeen
    /\ \E w \in {afterChat(World, t)} :
           \E w1 \in {Settle(w, t)} : Commit(w1)
    /\ UNCHANGED <<aq, currentTime, route, vad, jarvis>>

\* a synthesis request of turn t settles, whatever the turn is doing now
TtsSettled(t) ==
    \E idx \in Indices : \E ok \in BOOLEAN : \E buf \in {MaxDur} :
        /\ turns[t].tts[idx] = "pending"
        /\ \E w \in {ttsSettled(World, t, idx, ok, buf, currentTime)} :
               \E w1 \in {Settle(w, t)} : Commit(w1)
        /\ UNCHANGED <<aq, currentTime, route, vad, jarvis>>

\* the end event of the earliest buffer of turn t's queue that is still
\* scheduled
TurnBufferEnd(t) ==
    \E k \in FirstAudible(turns[t].q) :
        /\ \E w \in {[World EXCEPT
                        !.turns[t].q = onended(@, k, currentTime)]} :
               \E w1 \in {Settle(w, t)} : Commit(w1)
        /\ UNCHANGED <<aq, currentTime, route, vad, jarvis>>

Next ==
    \/ PressStart
    \/ PressEnd
    \/ ToggleTts
    \/ \E t \in Turns : RecorderStopped(t)
    \/ \E t \in Turns : TranscribeSettled(t)
    \/ \E t \in Turns : StreamSentence(t)
    \/ \E t \in Turns : StreamDone(t)
    \/ \E t \in Turns : StreamError(t)
    \/ \E t \in Turns : StreamEnd(t)
    \/ \E t \in Turns : TtsSettled(t)
    \/ \E t \in Turns : TurnBufferEnd(t)

Spec == Init /\ [][Next]_vars

\* ------------------------------------------------------------------------
\* SpecSteadyTts: the same controller with a user who clicks the TTS toggle
\* between turns only, so that ttsEnabled has one value from the press that
\* starts a listening phase until the session is Idle again
\* ------------------------------------------------------------------------
ToggleTtsIdle ==
    /\ current = IDLE
    /\ ~pipelineBusy
    /\ ToggleTts

NextSteadyTts ==
    \/ PressStart
    \/ PressEnd
    \/ ToggleTtsIdle
    \/ \E t \in Turns : RecorderStopped(t)
    \/ \E t \in Turns : TranscribeSettled(t)
    \/ \E t \in Turns : StreamSentence(t)
    \/ \E t \in Turns : StreamDone(t)
    \/ \E t \in Turns : StreamError(t)
    \/ \E t \in Turns : StreamEnd(t)
    \/ \E t \in Turns : TtsSettled(t)
    \/ \E t \in Turns : TurnBufferEnd(t)

SpecSteadyTts == Init /\ [][NextSteadyTts]_vars

\* ------------------------------------------------------------------------
\* FairSpecSuccess: the Drishti controller when the TTS toggle is clicked
\* between turns only, every request succeeds and every response, result
\* and end event that is due is eventually delivered
\* ------------------------------------------------------------------------
\* API.transcribe resolves, with a text or an empty text
TranscribeSucceeds(t) ==
    \E outcome \in {"text", "empty"} : TranscribeOutcome(t, outcome)

\* a synthesis request of turn t succeeds and its audio is decoded
TtsSucceeds(t) ==
    \E idx \in Indices : \E buf \in {MaxDur} :
        /\ turns[t].tts[idx] = "pending"
        /\ \E w \in {ttsSettled(World, t, idx, TRUE, buf, currentTime)} :
               \E w1 \in {Settle(w, t)} : Commit(w1)
        /\ UNCHANGED <<aq, currentTime, route, vad, jarvis>>

\* what the services and the audio hardware do when nothing fails
Delivered ==
    \/ \E t \in Turns : RecorderStopped(t)
    \/ \E t \in Turns : TranscribeSucceeds(t)
    \/ \E t \in Turns : StreamSentence(t)
    \/ \E t \in Turns : StreamDone(t)
    \/ \E t \in Turns : StreamEnd(t)
    \/ \E t \in Turns : TtsSucceeds(t)
    \/ \E t \in Turns : TurnBufferEnd(t)

\* the audio clock runs while the user and the services act
NextSuccess ==
    \/ PressStart
    \/ PressEnd
    \/ ToggleTtsIdle
    \/ Tick
    \/ Delivered

\* every response, result and end event that is due is delivered
Delivery ==
    /\ WF_vars(\E t \in Turns : RecorderStopped(t))
    /\ WF_vars(\E t \in Turns : TranscribeSucceeds(t))
    /\ WF_vars(\E t \in Turns : StreamDone(t))
    /\ WF_vars(\E t \in Turns : StreamEnd(t))
    /\ WF_vars(\E t \in Turns : TtsSucceeds(t))
    /\ WF_vars(\E t \in Turns : TurnBufferEnd(t))

FairSpecSuccess == Init /\ [][NextSuccess]_vars /\ Delivery

\* ------------------------------------------------------------------------
\* FairSpecToggle: the same, with a user who clicks the TTS toggle at any
\* moment, during a turn as well
\* ------------------------------------------------------------------------
NextToggle ==
    \/ PressStart
    \/ PressEnd
    \/ ToggleTts
    \/ Tick
    \/ Delivered

FairSpecToggle == Init /\ [][NextToggle]_vars /\ Delivery

\* ------------------------------------------------------------------------
\* SpecDecoder: one invocation of the /api/chat route.  The upstream model
\* produces one of the texts below, or a prefix of it, cut into at most
\* MaxDeltas content deltas at any positions; every read of the loop
\* brings one frame.  Upper-case letters occur in hidden spans only.
\* ------------------------------------------------------------------------
\* "Hello world. This is a test.": the example of two sentence units
TextHello ==
    <<"H", "e", "l", "l", "o", " ", "w", "o", "r", "l", "d", ".", " ", "T",
      "h", "i", "s", " ", "i", "s", " ", "a", " ", "t", "e", "s", "t", ".">>

\* "Partial thought": the example of a remainder without terminal punctuation
TextPartial ==
    <<"P", "a", "r", "t", "i", "a", "l", " ", "t", "h", "o", "u", "g", "h",
      "t">>

\* "<think>SECRET</think>visible text": a hidden span followed by visible text
TextThink ==
    <<"<", "t", "h", "i", "n", "k", ">", "S", "E", "C", "R", "E", "T", "<",
      "/", "t", "h", "i", "n", "k", ">", "v", "i", "s", "i", "b", "l", "e",
      " ", "t", "e", "x", "t">>

\* "<think>X</think>ok<think>Y</think>done": two hidden spans
TextTwoSpans ==
    <<"<", "t", "h", "i", "n", "k", ">", "X", "<", "/", "t", "h", "i", "n",
      "k", ">", "o", "k", "<", "t", "h", "i", "n", "k", ">", "Y", "<", "/",
      "t", "h", "i", "n", "k", ">", "d", "o", "n", "e">>

\* "hi<think>X": visible text followed by a hidden span that is never closed
TextOpenSpan ==
    <<"h", "i", "<", "t", "h", "i", "n", "k", ">", "X">>

\* "A **bold** claim. **": markup, and a remainder that is empty once cleaned
TextMarkup ==
    <<"A", " ", "*", "*", "b", "o", "l", "d", "*", "*", " ", "c", "l", "a",
      "i", "m", ".", " ", "*", "*">>

\* "Hi. Yes it is so. Ok": a segment shorter than the threshold
TextShort ==
    <<"H", "i", ".", " ", "Y", "e", "s", " ", "i", "t", " ", "i", "s", " ",
      "s", "o", ".", " ", "O", "k">>

\* "<think>X</think>ok": a short hidden span followed by visible text
TextSpan ==
    <<"<", "t", "h", "i", "n", "k", ">", "X", "<", "/", "t", "h", "i", "n",
      "k", ">", "o", "k">>

Texts ==
    {TextHello, TextPartial, TextThink, TextTwoSpans, TextOpenSpan,
     TextMarkup}

\* the shorter responses, on which each frame is followed step by step
FrameTexts ==
    {TextHello, TextPartial, TextSpan, TextOpenSpan, TextMarkup, TextShort}

InitDecoder ==
    /\ aq = NewAudioQueueManager
    /\ currentTime = 0
    /\ InitDrishti
    /\ route \in {NewRoute(text) : text \in Texts}
    /\ vad = NewVAD
    /\ jarvis = NewJarvis

CommitRoute(r) ==
    /\ route' = r
    /\ UNCHANGED <<aq, currentTime, drishtiVars, apiVars, vad, jarvis>>

\* a frame with the next n characters as its delta content is read
Delta ==
    /\ route.pc = "read"
    /\ route.deltas < MaxDeltas
    /\ \E n \in 1 .. (Len(route.text) - route.pos) :
          LET content == SubSeq(route.text, route.pos + 1, route.pos + n)
              r       == [route EXCEPT
                             !.pos    = @ + n,
                             !.deltas = @ + 1,
                             !.cuts   = IF route.pos = 0 THEN @
                                        ELSE @ \cup {route.pos}]
          IN  CommitRoute(loopHead(onContent(r, content)))

\* a line that is not a data line, "[DONE]", a payload that is not JSON or
\* a frame without delta content is read (server.js:174-176, 178-181,
\* 220-222)
SkippedFrame ==
    /\ route.pc = "read"
    /\ CommitRoute(loopHead(skipFrame(route)))

\* req.on('close') (server.js:87)
ClientClose ==
    /\ route.pc = "read"
    /\ ~route.aborted
    /\ CommitRoute([route EXCEPT !.aborted = TRUE])

\* reader.read() reports done (server.js:166-167)
UpstreamEnd ==
    /\ route.pc = "read"
    /\ CommitRoute(flush(route))

\* reader.read() rejects (server.js:166, 237-243)
UpstreamError ==
    /\ route.pc = "read"
    /\ CommitRoute(catch(route))

\* the upstream service answers with an error status (server.js:122-129)
UpstreamRefuses ==
    /\ route.pc = "read"
    /\ route.deltas = 0
    /\ ~route.skipped
    /\ CommitRoute(refused(route))

NextDecoder ==
    \/ Delta
    \/ SkippedFrame
    \/ ClientClose
    \/ UpstreamEnd
    \/ UpstreamError
    \/ UpstreamRefuses

SpecDecoder == InitDecoder /\ [][NextDecoder]_vars

\* the chat route on the shorter responses
InitFrames ==
    /\ aq = NewAudioQueueManager
    /\ currentTime = 0
    /\ InitDrishti
    /\ route \in {NewRoute(text) : text \in FrameTexts}
    /\ vad = NewVAD
    /\ jarvis = NewJarvis

SpecFrames == InitFrames /\ [][NextDecoder]_vars

\* ------------------------------------------------------------------------
\* SpecVad: the VAD and the animation frames that drive it
\* ------------------------------------------------------------------------
CommitVad(v) ==
    /\ vad' = v
    /\ UNCHANGED <<aq, currentTime, drishtiVars, apiVars, route, jarvis>>

\* VAD.start(callbacks), which calls monitor once
VadStart ==
    /\ ~vad.enabled
    /\ \E rms \in RmsLevels : CommitVad(VAD_start(vad, rms))

\* VAD.stop()
VadStop ==
    /\ vad.enabled
    /\ CommitVad(VAD_stop(vad))

\* the callback of requestAnimationFrame (part_003:307): monitor runs
\* again, later, on a new sample
Frame ==
    /\ vad.enabled
    /\ \E gap \in 1 .. MaxGap : \E rms \in RmsLevels :
          /\ vad.now + gap <= MaxNow
          /\ CommitVad(monitor(sampled([vad EXCEPT !.now = @ + gap], rms),
                               rms))

NextVad ==
    \/ VadStart
    \/ VadStop
    \/ Frame

SpecVad == Init /\ [][NextVad]_vars

\* ------------------------------------------------------------------------
\* SpecJarvis: the Jarvis controller, its VAD, its turns and their queues.
\* As in Spec the audio clock is not advanced and every decoded buffer has
\* the duration MaxDur.  The wall clock is followed while the VAD runs and
\* during Listening, the only times at which it is read or a silence
\* matters.
\* ------------------------------------------------------------------------
\* What can no longer influence the controller is dropped.  The fields
\* of a VAD that is stopped are dropped, because VAD.start resets them,
\* and so is the time while no time is remembered, because only
\* differences of times are read; they are kept during a Listening phase
\* that onSpeechStart has started.
Rested(w) ==
    LET w1 == [w EXCEPT !.turns = [t \in Turns |-> Reclaim(w.turns[t])],
                        !.by    = IF w.current = LISTENING THEN @ ELSE "none"]
    IN  IF w1.current = LISTENING /\ w1.by = "vad" THEN w1
        ELSE IF ~w1.vad.enabled THEN [w1 EXCEPT !.vad = NewVAD]
        ELSE IF w1.vad.silenceStart = 0
        THEN [w1 EXCEPT !.vad.now = 1, !.vad.quietSince = 0]
        ELSE w1

CommitJarvis(w) ==
    /\ w.frames <= MaxFrames
    /\ jarvis' = Rested(w)
    /\ UNCHANGED <<aq, currentTime, drishtiVars, apiVars, route, vad>>

\* the reactions of every turn
RECURSIVE Jarvis_SettleAll(_, _, _)
Jarvis_SettleAll(w, ts, rms) ==
    IF ts = {} THEN w
    ELSE LET t == Least(ts)
         IN  Jarvis_SettleAll(Jarvis_Settle(w, t, rms), ts \ {t}, rms)

\* the samples that a handler which returns to Idle may take: in VAD mode
\* returnToIdle starts the VAD, whose first call of monitor samples the
\* microphone; otherwise no sample is taken
Heard == IF jarvis.vadMode THEN RmsLevels ELSE {SILENCE_THRESHOLD}

\* a new invocation of stopListeningAndProcess fits the bound
CanInvoke == jarvis.current = LISTENING => jarvis.invoked < MaxTurns

\* mousedown / touchstart / Space keydown (part_002:829-852)
JarvisPressStart ==
    \E rms \in Heard :
        CommitJarvis(Jarvis_SettleAll(Jarvis_handlePressStart(jarvis), Turns,
                                      rms))

\* mouseup / touchend / Space keyup (part_002:833-860)
JarvisPressEnd ==
    \E elapsed \in Elapsed :
        /\ CanInvoke
        /\ CommitJarvis(Jarvis_handlePressEnd(jarvis, elapsed))

\* click on the mode toggle (part_002:863-875)
ModeToggle ==
    \E rms \in RmsLevels :
        CommitJarvis(modeToggle(
            [jarvis EXCEPT !.by = IF @ = "vad" THEN "toggled" ELSE @], rms))

\* time passes, the microphone is at level rms and a pending animation
\* frame callback runs (part_002:228)
JarvisFrame ==
    /\ jarvis.frames > 0
    /\ CanInvoke
    /\ \E gap \in 1 .. MaxGap : \E rms \in RmsLevels : \E elapsed \in Elapsed :
          /\ jarvis.vad.now + gap <= MaxNow
          /\ CommitJarvis(animationFrame(
                 [jarvis EXCEPT !.vad = sampled([@ EXCEPT !.now = @ + gap],
                                                rms)],
                 rms, elapsed))

\* time passes during a Listening phase that onSpeechStart has started,
\* the microphone is at level rms and no animation frame callback is
\* pending
Elapse ==
    /\ jarvis.frames = 0
    /\ jarvis.current = LISTENING
    /\ jarvis.by = "vad"
    /\ \E gap \in 1 .. MaxGap : \E rms \in RmsLevels :
          /\ jarvis.vad.now + gap <= MaxNow
          /\ CommitJarvis([jarvis EXCEPT
                 !.vad = sampled([@ EXCEPT !.now = @ + gap], rms)])

\* stopRecording resolves (part_002:126-144)
JarvisRecorderStopped(t) ==
    /\ jarvis.turns[t].pc = "stopRecording"
    /\ \E rms \in Heard :
          CommitJarvis(Jarvis_afterStopRecording(jarvis, t, rms))

\* API.transcribe settles: a text, an empty text, or a failure
JarvisTranscribeSettled(t) ==
    /\ jarvis.turns[t].pc = "transcribe"
    /\ \E outcome \in {"text", "empty", "error"} :
       \E rms \in Heard :
          CommitJarvis(Jarvis_afterTranscribe(jarvis, t, outcome, rms))

\* an event with a text is read from the chat stream: a sentence, or the
\* remainder with done: true (part_001:185, 199)
JarvisStreamSentence(t) ==
    /\ jarvis.turns[t].pc = "chat"
    /\ ~jarvis.turns[t].doneSeen
    /\ jarvis.turns[t].received < MaxSentences
    /\ \E done \in BOOLEAN :
       \E rms \in Heard :
          CommitJarvis(Jarvis_Settle(
              [Jarvis_onSentence(jarvis, t, jarvis.turns[t].received, done)
                  EXCEPT !.turns[t].received = @ + 1,
                         !.turns[t].doneSeen = done],
              t, rms))

\* the last event is read and has no text, so that onSentence is not
\* called (part_001:201, 204; part_002:358-364)
JarvisStreamDone(t) ==
    /\ jarvis.turns[t].pc = "chat"
    /\ ~jarvis.turns[t].doneSeen
    /\ CommitJarvis([jarvis EXCEPT !.turns[t].doneSeen = TRUE])

\* the chat request fails or an error event is read (part_002:341-343,
\* 357)
JarvisStreamError(t) ==
    /\ jarvis.turns[t].pc = "chat"
    /\ \E rms \in Heard :
          CommitJarvis(Jarvis_catch(jarvis, t, rms))

\* the response body ends after the last event: chatStream returns
JarvisStreamEnd(t) ==
    /\ jarvis.turns[t].pc = "chat"
    /\ jarvis.turns[t].doneSeen
    /\ \E rms \in Heard :
          CommitJarvis(Jarvis_Settle(Jarvis_afterChat(jarvis, t), t, rms))

\* a synthesis request of turn t settles, whatever the turn is doing now
JarvisTtsSettled(t) ==
    \E idx \in Indices : \E ok \in BOOLEAN : \E buf \in {MaxDur} :
    \E rms \in Heard :
        /\ jarvis.turns[t].tts[idx] = "pending"
        /\ CommitJarvis(Jarvis_Settle(
               Jarvis_ttsSettled(jarvis, t, idx, ok, buf, currentTime),
               t, rms))

\* the end event of the earliest buffer of turn t's queue that is still
\* scheduled
JarvisBufferEnd(t) ==
    \E k \in FirstAudible(jarvis.turns[t].q) :
    \E rms \in Heard :
        CommitJarvis(Jarvis_Settle(
            [jarvis EXCEPT !.turns[t].q = onended(@, k, currentTime)],
            t, rms))

NextJarvis ==
    \/ JarvisPressStart
    \/ JarvisPressEnd
    \/ ModeToggle
    \/ JarvisFrame
    \/ Elapse
    \/ \E t \in Turns : JarvisRecorderStopped(t)
    \/ \E t \in Turns : JarvisTranscribeSettled(t)
    \/ \E t \in Turns : JarvisStreamSentence(t)
    \/ \E t \in Turns : JarvisStreamDone(t)
    \/ \E t \in Turns : JarvisStreamError(t)
    \/ \E t \in Turns : JarvisStreamEnd(t)
    \/ \E t \in Turns : JarvisTtsSettled(t)
    \/ \E t \in Turns : JarvisBufferEnd(t)

\* Jarvis.init (part_002:785-808), which starts in VAD mode, has run
InitJarvis ==
    /\ aq = NewAudioQueueManager
    /\ currentTime = 0
    /\ InitDrishti
    /\ route = NewRoute(<< >>)
    /\ vad = NewVAD
    /\ jarvis \in {Rested(startVADMode(NewJarvis, rms)) : rms \in RmsLevels}

SpecJarvis == InitJarvis /\ [][NextJarvis]_vars

\* ------------------------------------------------------------------------
\* Properties
\* ------------------------------------------------------------------------
\* the sources created since the last clear() before source k
EarlierInEpoch(q, k) ==
    {j \in 1 .. (k - 1) : q.sources[j].epoch = q.sources[k].epoch}

\* the scheduled end of the buffer started before source k since the last
\* clear(), 0 when k is the first
PreviousEnd(q, k) ==
    IF EarlierInEpoch(q, k) = {} THEN 0
    ELSE LET j == CHOOSE x \in EarlierInEpoch(q, k) :
                      \A y \in EarlierInEpoch(q, k) : y <= x
         IN  q.sources[j].end

\* the completion condition as the class evaluates it
CompletionCondition(q) ==
    q.allEnqueued /\ q.nextPlayIndex >= q.totalExpected /\ ~q.isPlaying

\* C1: whatever the arrival order of the buffers and however the arrivals
\* interleave with buffer-end events, the buffers are started in index
\* order: the k-th buffer started since the scheduler was created or
\* cleared is the one of index k-1.
C1_StartedInIndexOrder ==
    \A k \in 1 .. Len(aq.sources) :
        aq.sources[k].idx = Cardinality(EarlierInEpoch(aq, k))

\* C1 witness: index 1 arrived first and waited in the queue until index 0
\* arrived, and both have been started.
C1_Witness ==
    /\ Len(aq.sources) >= 2
    /\ aq.clears = 0
    /\ aq.sources[1].idx = 0
    /\ 1 \in aq.sources[1].waiting
    /\ aq.sources[2].idx = 1

\* C2: when the completion rule resolves the future, markAllEnqueued has
\* been called, nextPlayIndex >= totalExpected, and no buffer that was
\* started is still waiting for its end event.
C2_ResolvedOnlyWhenSilent ==
    [][ (aq.resolvedBy = "none" /\ aq'.resolvedBy = "completion")
          => /\ aq'.allEnqueued
             /\ aq'.nextPlayIndex >= aq'.totalExpected
             /\ Audible(aq') = {} ]_vars

\* a completion of turn t that runs after a newer listening phase began
StaleCompletion(t) ==
    /\ turns[t].runVersion < interactionVersion
    /\ TtsSettled(t)

\* C3: a completion of a prior turn that runs after a newer listening
\* phase has begun changes neither the state machine's state nor any
\* playback queue, and starts no audio.
C3_StaleCompletionsInert ==
    [][ \A t \in Turns :
          StaleCompletion(t)
            => /\ current' = current
               /\ \A u \in Turns :
                    /\ Fields(turns'[u].q) = Fields(turns[u].q)
                    /\ Len(turns'[u].q.sources) = Len(turns[u].q.sources) ]_vars

InProgress == {PROCESSING, STREAMING, SPEAKING}

ActiveTurns == {t \in Turns : turns[t].pc \notin {"none", "done"}}

LegalEdges ==
    { <<IDLE, LISTENING>>, <<LISTENING, PROCESSING>>,
      <<PROCESSING, STREAMING>>, <<STREAMING, SPEAKING>>,
      <<STREAMING, IDLE>>, <<SPEAKING, IDLE>>,
      <<PROCESSING, IDLE>> }

\* C6: every change of the state machine's state is one of the edges
\* Idle->Listening, Listening->Processing, Processing->Streaming,
\* Streaming->Speaking, Streaming->Idle, Speaking->Idle or a return to
\* Idle; Speaking is entered from Streaming only.
C6_OnlyLegalEdges ==
    [][ current' # current => <<current, current'>> \in LegalEdges ]_vars

\* C7: clear() called while a waitForCompletion future is pending resolves
\* it in that call, whatever the queue holds, whatever nextPlayIndex is
\* and whether or not markAllEnqueued was called.
C7_ClearResolves ==
    [][ (Clear /\ aq.completionResolve)
          => /\ aq'.resolveCalls = aq.resolveCalls + 1
             /\ ~aq'.completionResolve ]_vars

\* C7 witness: clear resolved a future that the completion rule could not
\* resolve, because markAllEnqueued had not been called.
C7_Witness ==
    /\ aq.resolvedBy = "clear"
    /\ aq.resolveCalls = 1
    /\ ~aq.markCalled
    /\ aq.arrived # {}

\* C8: clear() leaves every field of the scheduler at the value the
\* constructor gives it.
C8_ClearResets ==
    [][ Clear => Fields(aq') = Fields(NewAudioQueueManager) ]_vars

\* C8 witness: the scheduler was cleared after it had started a buffer
\* and had been told the total, while that buffer was still playing.
C8_Witness ==
    /\ aq.clears = 1
    /\ Fields(aq) = Fields(NewAudioQueueManager)
    /\ Audible(aq) # {}
    /\ aq.markCalled

\* C9: every buffer is started at max(currentTime + lead, scheduledEndTime)
\* and scheduledEndTime becomes that start plus the duration; so a buffer
\* never starts before the scheduled end of the one before it, and the
\* buffers that were in the queue when index 0 was started follow each
\* other without a gap.
C9_Gapless ==
    /\ \A k \in 1 .. Len(aq.sources) :
         LET s == aq.sources[k]
         IN  /\ s.start = Max(s.at + Lead, PreviousEnd(aq, k))
             /\ s.start >= PreviousEnd(aq, k)
             /\ s.end - s.start \in Durations
             /\ \A j \in EarlierInEpoch(aq, k) :
                  (aq.sources[j].idx = 0 /\ 1 .. s.idx \subseteq aq.sources[j].waiting)
                     => s.start = PreviousEnd(aq, k)
    /\ \A k \in 1 .. Len(aq.sources) :
         (aq.sources[k].epoch = aq.clears
            /\ \A j \in 1 .. Len(aq.sources) : j <= k)
           => aq.scheduledEndTime = aq.sources[k].end

\* C9 witness: all buffers were queued when index 0 was started, and each
\* starts at the scheduled end of the one before it.
C9_Witness ==
    /\ Len(aq.sources) = MaxSentences
    /\ aq.clears = 0
    /\ aq.sources[1].waiting = Indices \ {0}
    /\ \A k \in 2 .. Len(aq.sources) :
         aq.sources[k].start = aq.sources[k - 1].end

\* every index below the expected total has been passed to enqueue
AllArrived(q) == \A i \in Indices : i < q.totalExpected => i \in q.arrived

\* C10: once all buffers are enqueued, markAllEnqueued was called and
\* every started buffer ends, the future returned by waitForCompletion is
\* resolved; a resolver is invoked at most once; and when the completion
\* condition holds at the call of waitForCompletion the future is
\* resolved within the call.
C10_CompletionResolved ==
    /\ [](aq.resolveCalls <= 1)
    /\ [][ (WaitForCompletion /\ CompletionCondition(aq))
             => aq'.resolveCalls = 1 ]_vars
    /\ (aq.waitCalled /\ aq.markCalled /\ AllArrived(aq))
          ~> (aq.resolveCalls = 1)

\* C10 witness: every buffer of the turn was played to its end and the
\* completion rule resolved the future.
C10_Witness ==
    /\ aq.resolvedBy = "completion"
    /\ aq.totalExpected = MaxSentences
    /\ aq.nextPlayIndex = MaxSentences
    /\ Audible(aq) = {}

\* the indices below the expected total that were never passed to enqueue;
\* markAllEnqueued runs after every synthesis request has settled, so such
\* an index stays missing
Missing(q) == {i \in Indices : i < q.totalExpected /\ i \notin q.arrived}

\* C11: nextPlayIndex never exceeds an index whose buffer was not
\* enqueued, and while an index below totalExpected is missing the
\* completion rule does not resolve the future, even after
\* markAllEnqueued and after every other buffer has arrived and ended.
C11_MissingIndexBlocks ==
    /\ \A i \in Indices \ aq.arrived : aq.nextPlayIndex <= i
    /\ Missing(aq) # {} => /\ aq.resolvedBy # "completion"
                           /\ aq.waitCalled /\ aq.clears = 0
                                => aq.completionResolve

\* C11 witness: markAllEnqueued was called, the buffers before the missing
\* index were played to their end, and the future is still pending.
C11_Witness ==
    /\ Missing(aq) # {}
    /\ aq.allEnqueued
    /\ aq.completionResolve
    /\ aq.nextPlayIndex > 0
    /\ ~aq.isPlaying
    /\ Audible(aq) = {}

\* the result of the callbacks of the synthesis request idx of turn t,
\* with the promise reactions that follow it
AfterTts(t, idx, ok) ==
    Settle(ttsSettled(World, t, idx, ok, MaxDur, currentTime), t)

\* C12: a failed synthesis or decode of index i is only logged: it adds no
\* entry to the transcript, leaves the state, the lock and the turn where
\* they are, leaves every other request as it is, and index i is never
\* enqueued; a request that succeeds is enqueued whether or not another
\* one has failed.
C12_SynthesisFailureIsolated ==
    \A t \in Turns : \A i \in Indices :
        /\ turns[t].tts[i] = "pending"
              => /\ AfterTts(t, i, FALSE).added = << >>
                 /\ AfterTts(t, i, FALSE).current = current
                 /\ AfterTts(t, i, FALSE).pipelineBusy = pipelineBusy
                 /\ AfterTts(t, i, FALSE).turns[t].pc = turns[t].pc
                 /\ AfterTts(t, i, FALSE).turns[t].tts[i] = "failed"
                 /\ \A j \in Indices \ {i} :
                      AfterTts(t, i, FALSE).turns[t].tts[j] = turns[t].tts[j]
                 /\ AfterTts(t, i, FALSE).turns[t].q.queue = turns[t].q.queue
                 /\ AfterTts(t, i, FALSE).turns[t].q.sources = turns[t].q.sources
                 /\ i \in AfterTts(t, i, TRUE).turns[t].q.arrived
        /\ turns[t].tts[i] = "failed"
              => /\ i \notin turns[t].q.arrived
                 /\ i \notin DOMAIN turns[t].q.queue
                 /\ \A k \in 1 .. Len(turns[t].q.sources) :
                      turns[t].q.sources[k].idx # i
        /\ turns[t].tts[i] = "enqueued" => i \in turns[t].q.arrived

\* C12 witness: the synthesis of index 0 failed, the turn goes on, and
\* index 1, synthesised after that, is in the queue.
C12_Witness ==
    \E t \in Turns :
        /\ turns[t].tts[0] = "failed"
        /\ turns[t].tts[1] = "enqueued"
        /\ 1 \in DOMAIN turns[t].q.queue
        /\ turns[t].pc \in {"chat", "waitCompletion"}
        /\ pipelineBusy
        /\ added = << >>

\* the turn ended on its error path
EndedWithError(w, t) ==
    /\ w.added = <<"error">>
    /\ ~w.pipelineBusy
    /\ w.current = IDLE
    /\ w.turns[t].pc = "done"

\* C13: when the transcription fails, or the chat request or the chat
\* stream fails, the turn ends with an error entry added to the
\* transcript, pipelineBusy false and the state machine in Idle.
C13_FailureEndsTurnVisibly ==
    /\ \A t \in Turns :
         /\ turns[t].pc = "transcribe"
               => EndedWithError(afterTranscribe(World, t, "error"), t)
         /\ turns[t].pc = "chat"
               => EndedWithError(chatFailed(World, t), t)
    /\ added = <<"error">> => (current = IDLE /\ ~pipelineBusy)

\* C13 witness: the chat stream failed after the user entry was pushed,
\* and the step that handled it added the error entry.
C13_Witness ==
    /\ added = <<"error">>
    /\ current = IDLE
    /\ ~pipelineBusy
    /\ conversationHistory # << >>
    /\ activeChatController = 0
    /\ \A t \in Turns : turns[t].pc \in {"none", "done"}

\* C14: an empty or blank transcript ends the turn in Idle with the lock
\* released, without entering Streaming, without a chat request, without
\* a change of conversationHistory and without an entry in the
\* transcript.
C14_EmptyTranscriptSilent ==
    \A t \in Turns :
        turns[t].pc = "transcribe"
          => /\ afterTranscribe(World, t, "empty").current = IDLE
             /\ ~afterTranscribe(World, t, "empty").pipelineBusy
             /\ afterTranscribe(World, t, "empty").turns[t].pc = "done"
             /\ afterTranscribe(World, t, "empty").api = World.api
             /\ afterTranscribe(World, t, "empty").api.activeChatController = 0
             /\ afterTranscribe(World, t, "empty").added = << >>

\* C14 witness: a transcription is outstanding; an empty text ends the
\* turn, where a text would have been pushed and sent.
C14_Witness ==
    \E t \in Turns :
        /\ turns[t].pc = "transcribe"
        /\ current = PROCESSING
        /\ afterTranscribe(World, t, "empty").current = IDLE
        /\ afterTranscribe(World, t, "text").current = STREAMING
        /\ afterTranscribe(World, t, "text").api.conversationHistory
              # conversationHistory

\* a listening phase has begun and the session has not returned to Idle
InTurn == current # IDLE \/ pipelineBusy

\* C15: in a turn during which ttsEnabled is false throughout, no
\* synthesis request is issued, no playback queue is created, the state
\* does not become Speaking, and the end of the chat stream takes the
\* turn to Idle.  Under SpecSteadyTts, ttsEnabled false in a turn means
\* false since the turn began.
C15_MuteTurnNeverSpeaks ==
    [][ (~ttsEnabled /\ InTurn)
          => /\ current' = SPEAKING => current = SPEAKING
             /\ \A t \in Turns :
                  /\ turns'[t].hasQueue => turns[t].hasQueue
                  /\ \A i \in Indices :
                       turns'[t].tts[i] = "pending" => turns[t].tts[i] = "pending"
                  /\ StreamEnd(t) => current' = IDLE ]_vars

\* h2 is h1 without some of its oldest entries, followed by at most one
\* new entry
DropsOldestOnly(h1, h2) ==
    \E d \in 0 .. Len(h1) : \E n \in 0 .. 1 :
        /\ Len(h2) = Len(h1) - d + n
        /\ \A k \in 1 .. (Len(h1) - d) : h2[k] = h1[d + k]

\* C16: conversationHistory never holds more than MAX_HISTORY entries, and
\* a step that drops entries drops the oldest ones and keeps the order of
\* the others.
C16_HistoryCapped ==
    /\ [](Len(conversationHistory) <= MAX_HISTORY)
    /\ [][DropsOldestOnly(conversationHistory, conversationHistory')]_vars

\* ------------------------------------------------------------------------
\* Properties of the chat route (SpecDecoder)
\* ------------------------------------------------------------------------
\* the sentence events written so far, in order
SentenceEvents == SelectSeq(route.res, LAMBDA e : e.type = "sentence")

\* the characters of a text
Chars(s) == {s[k] : k \in 1 .. Len(s)}

\* the route has run to its end for a client that stayed, without an error
Completed ==
    /\ route.pc = "returned"
    /\ ~route.aborted
    /\ route.res # << >>
    /\ route.res[Len(route.res)].type = "done"

\* C17: the k-th sentence event of a response carries index k-1, whatever
\* deltas, frames without content and empty cleaned remainders occurred;
\* the counter sentenceIndex is the number of sentence events written.
C17_SentenceIndicesContiguous ==
    /\ \A k \in 1 .. Len(SentenceEvents) : SentenceEvents[k].index = k - 1
    /\ route.sentenceIndex = Len(SentenceEvents)

\* a response cut into several deltas, with a skipped frame, that ended
\* with two sentence events
C17_Witness ==
    /\ Completed
    /\ route.skipped
    /\ route.deltas >= 2
    /\ Len(SentenceEvents) = 2

\* the text read from the upstream model so far
ReadText == SubSeq(route.text, 1, route.pos)

\* the concatenation of the token events written so far
RECURSIVE Tokens(_)
Tokens(res) ==
    IF res = << >> THEN << >>
    ELSE IF Head(res).type = "token" THEN Head(res).token \o Tokens(Tail(res))
    ELSE Tokens(Tail(res))

\* text with every span from a start marker to the next end marker
\* removed, and with everything from an unmatched start marker on removed
RECURSIVE Visible(_)
Visible(text) ==
    LET a == indexOf(text, StartMarker, 1)
        b == indexOf(text, EndMarker, a + Len(StartMarker))
    IN  IF a = 0 THEN text
        ELSE IF b = 0 THEN SubSeq(text, 1, a - 1)
        ELSE SubSeq(text, 1, a - 1) \o Visible(From(text, b + Len(EndMarker)))

\* some delta ended inside a marker of the text read
MarkerCut ==
    \E c \in route.cuts : \E m \in {StartMarker, EndMarker} :
        \E i \in Occurrences(ReadText, m) : i <= c /\ c < i + Len(m) - 1

\* C18: when every marker of a response lies wholly inside one delta, the
\* token events of the completed response together carry the text with
\* its hidden spans removed, whatever the cuts; in particular the text
\* before an unmatched start marker of the same delta is forwarded.
C18_SplitInvariantFilter ==
    (Completed /\ ~MarkerCut) => Tokens(route.res) = Visible(ReadText)

\* the text located between a start marker and the next end marker, or
\* after an unmatched start marker
RECURSIVE HiddenPart(_)
HiddenPart(text) ==
    LET a == indexOf(text, StartMarker, 1)
        b == indexOf(text, EndMarker, a + Len(StartMarker))
    IN  IF a = 0 THEN << >>
        ELSE IF b = 0 THEN From(text, a + Len(StartMarker))
        ELSE SubSeq(text, a + Len(StartMarker), b - 1)
                 \o HiddenPart(From(text, b + Len(EndMarker)))

\* the characters of the hidden spans of the response; in every text of
\* Texts they occur in the hidden spans only
HiddenChars == Chars(HiddenPart(route.text))

\* the text an event carries downstream
Carried(e) ==
    IF e.type = "token" THEN e.token
    ELSE IF e.type = "sentence" THEN e.text
    ELSE << >>

\* C19: no character of a hidden span is forwarded as a token or included
\* in a sentence unit, however the response is cut into deltas.
C19_HiddenNeverForwarded ==
    \A k \in 1 .. Len(route.res) :
        Chars(Carried(route.res[k])) \cap HiddenChars = {}

\* the texts of the sentence events written so far, in order
SentenceTexts ==
    [k \in 1 .. Len(SentenceEvents) |-> SentenceEvents[k].text]

\* a text without markup characters and without markers
Plain(text) == Chars(text) \cap {"*", "#", Backtick, "[", "<"} = {}

\* the positions of text that hold a terminal punctuation character
\* followed by whitespace
Boundaries(text) ==
    {i \in 1 .. (Len(text) - 1) :
        text[i] \in Terminal /\ text[i + 1] \in Whitespace}

\* the units of the part of text that begins at start: the trimmed
\* segment up to the first boundary at which it reaches the threshold,
\* then the units of the rest; without such a boundary, the trimmed rest
\* if it is not empty
RECURSIVE Units(_, _)
Units(text, start) ==
    LET accepted == {i \in Boundaries(text) :
                        /\ i >= start
                        /\ Len(trim(SubSeq(text, start, i)))
                               >= SentenceThreshold}
        rest     == trim(From(text, start))
    IN  IF accepted # {}
        THEN <<trim(SubSeq(text, start, Least(accepted)))>>
                 \o Units(text, Least(accepted) + 1)
        ELSE IF rest = << >> THEN << >> ELSE <<rest>>

\* C20: for a response without markup and hidden spans the sentence
\* events of the completed response carry, in order, the trimmed segments
\* that end at a terminal punctuation character followed by whitespace and
\* reach the length threshold, then the non-empty remainder.  "Hello
\* world. This is a test." as one delta gives "Hello world." and "This is
\* a test."; "Partial thought" gives the one unit "Partial thought".
C20_UnitsOfPlainText ==
    /\ (Completed /\ Plain(ReadText)) => SentenceTexts = Units(ReadText, 1)
    /\ (Completed /\ ReadText = TextHello /\ route.deltas = 1)
           => SentenceTexts = <<SubSeq(TextHello, 1, 12),
                                SubSeq(TextHello, 14, 28)>>
    /\ (Completed /\ ReadText = TextPartial) => SentenceTexts = <<TextPartial>>

\* "Hello world. This is a test." arrived as one delta and the stream
\* ended
C20_Witness ==
    /\ Completed
    /\ ReadText = TextHello
    /\ route.deltas = 1
    /\ Len(SentenceEvents) = 2

\* the contents the next delta may have, where Delta is enabled
NextContents ==
    IF route.pc = "read" /\ route.deltas < MaxDeltas
    THEN {SubSeq(route.text, route.pos + 1, route.pos + n) :
             n \in 1 .. (Len(route.text) - route.pos)}
    ELSE {}

\* the text that sentence detection sees when the next delta has this
\* content: the accumulator followed by what the filter lets through
Accumulated(content) ==
    route.sentenceBuffer \o stripThinking(content, route.insideThinking).text

\* the concatenation of a sequence of texts
RECURSIVE Join(_)
Join(texts) == IF texts = << >> THEN << >> ELSE Head(texts) \o Join(Tail(texts))

\* C21: a boundary whose trimmed text is shorter than the threshold is not
\* cut.  Whatever the next delta, every sentence that detection pushes has
\* a trimmed length of at least the threshold before cleaning, and the
\* pushed sentences followed by the new accumulator are the accumulated
\* text except for whitespace, so the short text stays at the beginning
\* of the next unit.  For plain text the sentence events written while the
\* stream runs are therefore at least that long.
C21_ShortFragmentNotCut ==
    /\ \A content \in NextContents :
            LET buf == Accumulated(content)
                sc  == scanSentences(buf, 1, 1, << >>)
                r   == detect(route, buf)
            IN  /\ \A k \in 1 .. Len(sc.sentences) :
                      Len(sc.sentences[k]) >= SentenceThreshold
                /\ without(Join(sc.sentences) \o r.sentenceBuffer, Whitespace)
                       = without(buf, Whitespace)
    /\ (route.pc = "read" /\ Plain(ReadText)) =>
         \A k \in 1 .. Len(SentenceTexts) :
            Len(SentenceTexts[k]) >= SentenceThreshold

\* "Hi. Yes it is so. " has been read in several deltas: the boundary
\* after "Hi." was passed and the unit written begins with "Hi."
C21_Witness ==
    /\ route.pc = "read"
    /\ route.text = TextShort
    /\ route.deltas >= 2
    /\ SentenceTexts = <<SubSeq(TextShort, 1, 17)>>
    /\ route.sentenceBuffer = << >>

\* the events that the end of the stream adds to the response
Flushed == SubSeq(flush(route).res, Len(route.res) + 1, Len(flush(route).res))

\* C22: when the stream ends for a client that stayed, an accumulator
\* whose cleaned text is not empty is written as one sentence event with
\* the next index, followed by the done event; an accumulator whose
\* cleaned text is empty adds the done event only.  A completed response
\* ends with its only done event, which counts the sentence events.
C22_RemainderFlushed ==
    /\ (route.pc = "read" /\ ~route.aborted) =>
         LET rest == cleanText(route.sentenceBuffer)
             n    == Len(SentenceEvents)
         IN  IF rest # << >>
             THEN Flushed = <<[type |-> "sentence", index |-> n,
                               text |-> rest],
                              [type |-> "done", sentenceCount |-> n + 1]>>
             ELSE Flushed = <<[type |-> "done", sentenceCount |-> n]>>
    /\ Completed =>
         /\ \A k \in 1 .. (Len(route.res) - 1) : route.res[k].type # "done"
         /\ route.res[Len(route.res)].sentenceCount = Len(SentenceEvents)
    /\ (Completed /\ Plain(ReadText)
            /\ trim(ReadText) # << >>
            /\ ReadText[Len(ReadText)] \notin Terminal \cup Whitespace) =>
         /\ route.res[Len(route.res) - 1].type = "sentence"
         /\ route.res[Len(route.res) - 1].index = Len(SentenceEvents) - 1

\* "Hi. Yes it is so. Ok" was read and the stream ended: "Ok", which has
\* no terminal punctuation, is the last unit, with index 1, before done
C22_Witness ==
    /\ Completed
    /\ ReadText = TextShort
    /\ Len(route.res) >= 3
    /\ route.res[Len(route.res) - 1] =
           [type |-> "sentence", index |-> 1, text |-> <<"O", "k">>]

\* ------------------------------------------------------------------------
\* Properties of the VAD (SpecVad)
\* ------------------------------------------------------------------------
\* C23: onSpeechEnd fires only when every sample of more than
\* SILENCE_DURATION was below SILENCE_THRESHOLD; a sample at or above
\* that threshold, also one that is not above SPEECH_THRESHOLD, restarts
\* the measurement.
C23_SilenceContinuous ==
    vad.fired = "end" =>
        /\ vad.quietSince # 0
        /\ vad.now - vad.quietSince > SILENCE_DURATION

\* ------------------------------------------------------------------------
\* Further properties of the Drishti controller (Spec)
\* ------------------------------------------------------------------------
\* the turn has ended in Idle without a transcription request, without a
\* chat request and without anything added to the transcript
DiscardedQuietly(w0, w, t) ==
    /\ w.turns[t].pc = "done"
    /\ w.current = IDLE
    /\ ~w.pipelineBusy
    /\ w.added = << >>
    /\ w.api = w0.api

\* C24: a capture stopped less than MIN_RECORDING_DURATION after it began
\* yields no clip; when stopRecording has resolved the turn is over, in
\* Idle, with no transcription requested and nothing shown.  A
\* transcription is requested for a clip only.
C24_ShortCaptureDiscarded ==
    /\ (current = LISTENING /\ interactionVersion \in Turns) =>
         \A elapsed \in Elapsed :
            elapsed < MIN_RECORDING_DURATION =>
               LET t == interactionVersion
                   w == handlePressEnd(World, elapsed)
               IN  /\ w.turns[t].pc = "stopRecording"
                   /\ ~w.turns[t].clip
                   /\ DiscardedQuietly(w, afterStopRecording(w, t), t)
    /\ \A t \in Turns :
         /\ (turns[t].pc = "stopRecording" /\ ~turns[t].clip) =>
               DiscardedQuietly(World, afterStopRecording(World, t), t)
         /\ turns[t].pc = "transcribe" => turns[t].clip

\* a capture that was too short has been stopped and stopRecording has
\* not resolved yet
C24_Witness ==
    \E t \in Turns :
        /\ turns[t].pc = "stopRecording"
        /\ ~turns[t].clip
        /\ current = PROCESSING
        /\ pipelineBusy

\* C25: interactionVersion never decreases; every step from Idle to
\* Listening adds exactly one to it, and no other step changes it.
C25_VersionCountsListening ==
    [][ /\ interactionVersion' >= interactionVersion
        /\ (current # LISTENING /\ current' = LISTENING)
             => /\ current = IDLE
                /\ interactionVersion' = interactionVersion + 1
        /\ interactionVersion' # interactionVersion
             => /\ interactionVersion' = interactionVersion + 1
                /\ current = IDLE
                /\ current' = LISTENING ]_vars

\* a second listening phase has begun
C25_Witness ==
    /\ current = LISTENING
    /\ interactionVersion = 2

\* a synthesis request was dispatched in the turn
Dispatched(tr) == \E i \in Indices : tr.tts[i] # "none"

\* C26: in a turn that dispatched a synthesis request and met no error,
\* the controller stays busy and away from Idle while the chat stream
\* runs and while waitForCompletion is pending, and when the stream ends
\* it returns to Idle and releases pipelineBusy only if the turn's
\* completion future has resolved, whatever became of the TTS toggle.
C26_WaitsForPlayback ==
    \A t \in Turns :
        /\ turns[t].pc \in {"chat", "waitCompletion"}
             => pipelineBusy /\ current # IDLE
        /\ (turns[t].pc = "chat" /\ turns[t].doneSeen /\ Dispatched(turns[t]))
             => LET w == Settle(afterChat(World, t), t)
                IN  (w.turns[t].pc = "done" \/ ~w.pipelineBusy
                         \/ w.current = IDLE)
                        => w.turns[t].q.resolveCalls > 0

\* ------------------------------------------------------------------------
\* Further properties of the Drishti controller with a steady TTS toggle
\* (SpecSteadyTts)
\* ------------------------------------------------------------------------
\* C27: while a turn with synthesis enabled runs, markAllEnqueued has been
\* called only if the done event was read and every synthesis request of
\* the turn has settled, and then with the number of sentence events of
\* the turn; once called it is not registered again; while it is
\* registered some request is still pending; and it has been called as
\* soon as the done event was read and every request has settled.
C27_MarkAfterAllSettled ==
    \A t \in Turns :
        LET tr == turns[t]
        IN  tr.pc \in {"chat", "waitCompletion"} =>
              /\ tr.q.markCalled
                   => /\ tr.doneSeen
                      /\ AllSettled(tr)
                      /\ ~tr.armed
                      /\ tr.q.totalExpected = tr.received
              /\ tr.armed
                   => /\ tr.doneSeen
                      /\ ~AllSettled(tr)
                      /\ ~tr.q.markCalled
                      /\ tr.total = tr.received
              /\ (tr.hasQueue /\ tr.doneSeen /\ AllSettled(tr))
                   => tr.q.markCalled

\* the done event of a turn with two sentences was read while a request
\* was pending; one request has failed, the other succeeded, and then
\* markAllEnqueued(2) was called
C27_Witness ==
    \E t \in Turns :
        /\ turns[t].pc = "waitCompletion"
        /\ turns[t].q.markCalled
        /\ turns[t].q.totalExpected = 2
        /\ turns[t].tts[0] = "failed"
        /\ turns[t].tts[1] = "enqueued"

\* ------------------------------------------------------------------------
\* Further properties of the AudioQueueManager (SpecQueue)
\* ------------------------------------------------------------------------
\* the sources created since the last clear()
CurrentSources(q) == {k \in 1 .. Len(q.sources) : q.sources[k].epoch = q.clears}

\* C28: a buffer is started only as the one of index nextPlayIndex and
\* leaves the queue when it is started, so that since the last clear()
\* every index was started at most once and nextPlayIndex counts the
\* buffers started; enqueue of another index than nextPlayIndex stores the
\* buffer and changes nothing else, and enqueue of nextPlayIndex starts
\* that index and those that follow it in the queue, one after the other.
C28_OnlyNextIndexStarts ==
    /\ \A k \in CurrentSources(aq) :
         /\ aq.sources[k].idx < aq.nextPlayIndex
         /\ aq.sources[k].idx \notin DOMAIN aq.queue
         /\ \A j \in CurrentSources(aq) :
              aq.sources[j].idx = aq.sources[k].idx => j = k
    /\ aq.nextPlayIndex = Cardinality(CurrentSources(aq))
    /\ \A i \in Indices : \A d \in Durations :
         LET q == enqueue(aq, i, d, currentTime)
             n == Len(q.sources) - Len(aq.sources)
         IN  /\ i # aq.nextPlayIndex
                  => /\ Fields(q) = [Fields(aq) EXCEPT
                                        !.queue = MapSet(aq.queue, i, d)]
                     /\ q.sources = aq.sources
             /\ i = aq.nextPlayIndex => n >= 1
             /\ \A m \in 1 .. n :
                  /\ q.sources[Len(aq.sources) + m].idx
                         = aq.nextPlayIndex + m - 1
                  /\ q.sources[Len(aq.sources) + m].idx \notin DOMAIN q.queue
             /\ q.nextPlayIndex = aq.nextPlayIndex + n

\* the buffer of index 1 has arrived before the one of index 0: it is
\* stored and nothing has been started
C28_Witness ==
    /\ DOMAIN aq.queue = {1}
    /\ aq.nextPlayIndex = 0
    /\ ~aq.isPlaying
    /\ aq.sources = << >>
    /\ aq.scheduledEndTime = 0

\* ------------------------------------------------------------------------
\* Further properties of the chat route (SpecDecoder)
\* ------------------------------------------------------------------------
\* the events that the frame with this delta content adds to the response
Written(content) ==
    LET r == onContent(route, content)
    IN  SubSeq(r.res, Len(route.res) + 1, Len(r.res))

\* what is left of this delta content after hidden-span filtering
Surviving(content) == stripThinking(content, route.insideThinking).text

\* C29: while the client is connected, a delta whose content survives
\* hidden-span filtering as a non-empty text adds exactly one token event,
\* which carries that text, and it adds it before the sentence events of
\* the boundaries that the delta completes: the events of one delta are
\* the token event followed by sentence events only.  A delta of which
\* nothing survives adds no event.  So every sentence event of a response
\* has a token event before it, and no event is written once the client
\* has gone.
C29_TokenBeforeSentences ==
    /\ \A content \in NextContents :
         LET new  == Written(content)
             text == Surviving(content)
         IN  IF route.aborted \/ text = << >>
             THEN new = << >>
             ELSE /\ new # << >>
                  /\ new[1] = [type |-> "token", token |-> text]
                  /\ \A k \in 2 .. Len(new) : new[k].type = "sentence"
    /\ \A k \in 1 .. Len(route.res) :
         route.res[k].type = "sentence"
             => \E j \in 1 .. (k - 1) : route.res[j].type = "token"

\* "Hello world. This is a test." arrived as one delta: its token event
\* is followed by the sentence event of "Hello world."
C29_Witness ==
    /\ route.pc = "read"
    /\ Len(route.res) = 2
    /\ route.res[1] = [type |-> "token", token |-> TextHello]
    /\ route.res[2] = [type |-> "sentence", index |-> 0,
                       text |-> SubSeq(TextHello, 1, 12)]

\* the fields of the route that decoding works on
Decoding(r) ==
    [res            |-> r.res,
     sentenceBuffer |-> r.sentenceBuffer,
     sentenceIndex  |-> r.sentenceIndex,
     insideThinking |-> r.insideThinking,
     aborted        |-> r.aborted]

\* C30: a frame that is skipped (a payload that is not JSON, or no delta
\* content) adds no event and leaves the sentence accumulator, the next
\* sentence index and the hidden-span flag as they are, and so does a
\* delta whose content is the empty string; the delta that follows a
\* skipped frame is decoded as it would have been without that frame.  So
\* the token events of a text without markup and markers carry the text
\* read, and its sentence events its units, with or without skipped frames.
C30_SkippedFrameChangesNothing ==
    /\ route.pc = "read" =>
         /\ Decoding(skipFrame(route)) = Decoding(route)
         /\ Decoding(onContent(route, << >>)) = Decoding(route)
         /\ Decoding(loopHead(skipFrame(route))) = Decoding(route)
         /\ ~route.aborted => loopHead(skipFrame(route)).pc = "read"
         /\ ~route.skipped =>
              \A content \in NextContents :
                 Decoding(onContent(skipFrame(route), content))
                     = Decoding(onContent(route, content))
    /\ (route.pc = "read" /\ ~route.aborted /\ Plain(ReadText))
           => Tokens(route.res) = ReadText
    /\ (Completed /\ Plain(ReadText))
           => /\ Tokens(route.res) = ReadText
              /\ SentenceTexts = Units(ReadText, 1)

\* "Hello world. This is a test." arrived in more than one delta, a frame
\* was skipped on the way, and the stream ended
C30_Witness ==
    /\ Completed
    /\ route.skipped
    /\ ReadText = TextHello
    /\ route.deltas >= 2
    /\ Len(SentenceEvents) = 2

\* ------------------------------------------------------------------------
\* Properties of the Jarvis controller (SpecJarvis)
\* ------------------------------------------------------------------------
\* C31: in VAD mode, once onSpeechStart has started a Listening phase and
\* nothing was pressed or clicked since, a silence does not last longer
\* than SILENCE_DURATION and the time to the next animation frame without
\* onSpeechEnd having taken the session from Listening to Processing.
C31_SilenceEndsListening ==
    (/\ jarvis.current = LISTENING
     /\ jarvis.vadMode
     /\ jarvis.by = "vad"
     /\ jarvis.vad.quietSince # 0)
        => jarvis.vad.now - jarvis.vad.quietSince
               <= SILENCE_DURATION + MaxGap

\* the press that interrupts Speaking, with the promise reactions that
\* follow it
Interrupted(rms) ==
    Jarvis_SettleAll(Jarvis_handlePressStart(jarvis), Turns, rms)

\* a synthesis request of turn t for sentence idx completes with a buffer
LateCompletion(t, idx, rms) ==
    Jarvis_Settle(Jarvis_ttsSettled(jarvis, t, idx, TRUE, MaxDur,
                                    currentTime), t, rms)

\* C32: a press during Speaking leaves the session in Listening with the
\* VAD stopped, also after the continuation of the interrupted turn that
\* the cleared queue has resumed; and during a Listening phase a synthesis
\* request of a turn whose queue was cleared completes without a change of
\* the state, without starting the VAD and without a buffer stored in that
\* queue or started from it.
C32_InterruptedTurnInert ==
    /\ jarvis.current = SPEAKING =>
         \A rms \in Heard :
            /\ Interrupted(rms).current = LISTENING
            /\ ~Interrupted(rms).vad.enabled
    /\ jarvis.current = LISTENING =>
         \A t \in Turns : \A idx \in Indices : \A rms \in Heard :
            (jarvis.turns[t].q.clears > 0
                /\ jarvis.turns[t].tts[idx] = "pending") =>
               LET w == LateCompletion(t, idx, rms)
               IN  /\ w.current = LISTENING
                   /\ w.vad.enabled = jarvis.vad.enabled
                   /\ w.turns[t].q.queue = jarvis.turns[t].q.queue
                   /\ w.turns[t].q.sources = jarvis.turns[t].q.sources

\* ------------------------------------------------------------------------
\* Termination of the turns of the Drishti controller
\* ------------------------------------------------------------------------
\* C33: when the TTS toggle is not clicked during a turn, every request
\* succeeds and every started buffer ends, a turn that has begun is
\* followed by a state in which the session is Idle and pipelineBusy is
\* false, whatever the order in which the synthesis results arrive.
C33_TurnEnds == pipelineBusy ~> (current = IDLE /\ ~pipelineBusy)

\* a turn with speech output has run to its end: the answer is in the
\* history, the session is Idle and the pipeline is free
C33_Witness ==
    /\ ttsEnabled
    /\ Len(conversationHistory) >= 2
    /\ \E t \in Turns : turns[t].pc = "done"
    /\ current = IDLE
    /\ ~pipelineBusy

\* C34: when every request succeeds and every started buffer ends, a turn
\* that has begun is followed by a state in which the session is Idle and
\* pipelineBusy is false, however often and whenever the TTS toggle is
\* clicked.
C34_ToggledTurnEnds ==
    [](pipelineBusy => <>(~pipelineBusy /\ current = IDLE))

\* a request of some turn is outstanding: an invocation of
\* stopListeningAndProcess has not returned, or a synthesis request has
\* not settled
Outstanding ==
    \E t \in Turns :
        \/ turns[t].pc \notin {"none", "done"}
        \/ \E i \in Indices : turns[t].tts[i] = "pending"

\* C35: in every reachable state in which pipelineBusy is false and no
\* request of any turn is outstanding, the session is Idle or Listening,
\* and a press leaves it in Listening, from where the release starts a
\* turn.
C35_NeverStuck ==
    (~pipelineBusy /\ ~Outstanding)
        => /\ current \in {IDLE, LISTENING}
           /\ handlePressStart(World).current = LISTENING

\* C36: while an invocation of stopListeningAndProcess has not returned,
\* the version it captured equals interactionVersion, so its finally
\* block, whenever it runs, executes returnToIdle and leaves the session
\* Idle.
C36_VersionGuardHolds ==
    \A t \in Turns :
        turns[t].pc \notin {"none", "done"}
            => /\ turns[t].runVersion = interactionVersion
               /\ finallyBlock(World, t).current = IDLE

\* the finally block of a turn that streamed an answer has just run
C36_Witness ==
    \E t \in Turns :
        /\ turns[t].pc = "done"
        /\ turns[t].runVersion = interactionVersion
        /\ Len(conversationHistory) >= 2
        /\ current = IDLE
        /\ ~pipelineBusy

\* ------------------------------------------------------------------------
\* The roles of API.conversationHistory (SpecHistory)
\* ------------------------------------------------------------------------
\* C37: no two consecutive entries of conversationHistory have the same
\* role, and when no call of chatStream is in progress every user entry
\* is followed by an assistant entry, whether the calls returned or threw.
C37_RolesAlternate ==
    LET h == conversationHistory
    IN  /\ \A k \in 1 .. (Len(h) - 1) : h[k].role # h[k + 1].role
        /\ activeChatController = 0
            => \A k \in 1 .. Len(h) :
                   h[k].role = "user"
                       => k < Len(h) /\ h[k + 1].role = "assistant"

\* ------------------------------------------------------------------------
\* The end of a chat response (SpecFrames)
\* ------------------------------------------------------------------------
\* the positions of the done and error events in the response
Terminals == {k \in 1 .. Len(route.res) : route.res[k].type \in {"done", "error"}}

\* C38: a response that has ended for a client that stayed holds exactly
\* one done or error event, and a done or error event is always the last
\* event written; the sentenceCount of a done event is the number of
\* sentence events before it, which is the index of the last of them plus
\* one, and 0 when there is none.
C38_OneTerminalEvent ==
    /\ (route.pc = "returned" /\ ~route.aborted) => Cardinality(Terminals) = 1
    /\ \A k \in Terminals : k = Len(route.res)
    /\ \A k \in Terminals :
           route.res[k].type = "done" =>
               /\ route.res[k].sentenceCount = Len(SentenceEvents)
               /\ route.res[k].sentenceCount =
                      IF SentenceEvents = << >> THEN 0
                      ELSE SentenceEvents[Len(SentenceEvents)].index + 1

\* a response in several deltas has ended with two sentence events and
\* the done event
C38_Witness ==
    /\ route.pc = "returned"
    /\ ~route.aborted
    /\ route.deltas >= 2
    /\ route.res[Len(route.res)] = [type |-> "done", sentenceCount |-> 2]

\* a response has ended with the error event after a sentence event
C38_ErrorWitness ==
    /\ route.pc = "returned"
    /\ ~route.aborted
    /\ Len(SentenceEvents) >= 1
    /\ route.res[Len(route.res)].type = "error"

\* C39: once aborted is true, no step of the streaming part of the route
\* (the read loop, the flush after it and the catch block) writes an event
\* to the response or changes sentenceIndex, whatever frames are still
\* read and however the stream ends.  The refusal of the upstream request
\* (server.js:122-129) precedes streaming and is not such a step.
C39_NothingAfterAbort ==
    [][(route.aborted /\ route' # refused(route))
           => /\ route'.res = route.res
              /\ route'.sentenceIndex = route.sentenceIndex
              /\ route'.aborted]_vars

\* the client went before the first frame arrived; "Hello world. This is
\* a test." was then read to its end and nothing was written
C39_Witness ==
    /\ route.aborted
    /\ route.pc = "returned"
    /\ ReadText = TextHello
    /\ route.res = << >>
    /\ route.sentenceIndex = 0

\* the sentence events of the response to text when text arrives as one
\* delta and the stream then ends
WholeEvents(text) ==
    SelectSeq(flush(loopHead(onContent(NewRoute(text), text))).res,
              LAMBDA e : e.type = "sentence")

\* C40: for a text without markup and hidden spans, the sentence events
\* of the completed response, indices and texts, are those of the same
\* text arriving as one delta, at whatever positions it was cut into
\* deltas, also between a terminal punctuation character and the
\* whitespace after it.
C40_SplitInvariantUnits ==
    (Completed /\ Plain(ReadText)) => SentenceEvents = WholeEvents(ReadText)

\* "Hello world. This is a test." was cut between the first full stop and
\* the space after it, and the response ended with its two units
C40_Witness ==
    /\ Completed
    /\ ReadText = TextHello
    /\ 12 \in route.cuts
    /\ SentenceEvents =
           <<[type |-> "sentence", index |-> 0, text |-> SubSeq(TextHello, 1, 12)],
             [type |-> "sentence", index |-> 1, text |-> SubSeq(TextHello, 14, 28)]>>

====
